---------------------------- MODULE Spec2Model ----------------------------
(***************************************************************************)
(* Strip Packing Problem solvers (spp/core.py, spp/solvers/*.py).          *)
(*                                                                         *)
(* State: one solver object (its instance, allow_rotation and the other    *)
(* constructor fields), the position of its solve() call, the local        *)
(* variables of the running method, and the value it returns or raises.    *)
(* Python lists are sequences, tuples are tuples, None is the empty        *)
(* sequence where a value is optional.                                     *)
(***************************************************************************)
EXTENDS Integers, Sequences, FiniteSets, TLC

VARIABLES
    instance,        \* BaseSolver.instance (an Instance)
    allow_rotation,  \* BaseSolver.allow_rotation
    self,            \* the remaining fields of the solver object
    pc,              \* position of the solve() call
    frame,           \* local variables of the running method
    sol,             \* <<>> or <<Solution>>: the value solve() returned
    err,             \* <<>> or <<error>>: the exception solve() raised
    decoded          \* history: the H of every Solution _decode returned in this run

vars == <<instance, allow_rotation, self, pc, frame, sol, err, decoded>>

(***************************************************************************)
(* Bounds of the model.                                                    *)
(***************************************************************************)
MaxN == 2                  \* rectangles per instance (heuristic runs)
Dims == {1, 2, 3}          \* rectangle widths and heights
StripWidths == {2, 3}      \* strip widths W
Kerfs == {0, 1}            \* kerf_delta values

(***************************************************************************)
(* Generic helpers for Python built-ins.                                   *)
(***************************************************************************)
Max2(a, b) == IF a >= b THEN a ELSE b
Min2(a, b) == IF a <= b THEN a ELSE b

RECURSIVE SumSeq(_)
SumSeq(s) == IF s = <<>> THEN 0 ELSE Head(s) + SumSeq(Tail(s))

\* max(...) over a non-empty sequence of integers
RECURSIVE MaxSeq(_)
MaxSeq(s) == IF Len(s) = 1 THEN s[1] ELSE Max2(Head(s), MaxSeq(Tail(s)))


\* list.sort(key=..., reverse=True) on <<key, item>> pairs: stable, descending
RECURSIVE InsertDesc(_, _)
InsertDesc(sorted, p) ==
    IF sorted = <<>> THEN <<p>>
    ELSE IF Head(sorted)[1] >= p[1]
         THEN <<Head(sorted)>> \o InsertDesc(Tail(sorted), p)
         ELSE <<p>> \o sorted

RECURSIVE SortDescFrom(_, _)
SortDescFrom(sorted, rest) ==
    IF rest = <<>> THEN sorted
    ELSE SortDescFrom(InsertDesc(sorted, Head(rest)), Tail(rest))

sort_reverse(pairs) == SortDescFrom(<<>>, pairs)

\* list.sort(key=...) on <<key, item>> pairs: stable, ascending
RECURSIVE InsertAsc(_, _)
InsertAsc(sorted, p) ==
    IF sorted = <<>> THEN <<p>>
    ELSE IF Head(sorted)[1] <= p[1]
         THEN <<Head(sorted)>> \o InsertAsc(Tail(sorted), p)
         ELSE <<p>> \o sorted

RECURSIVE SortAscFrom(_, _)
SortAscFrom(sorted, rest) ==
    IF rest = <<>> THEN sorted
    ELSE SortAscFrom(InsertAsc(sorted, Head(rest)), Tail(rest))

sort_key(pairs) == SortAscFrom(<<>>, pairs)

Items(pairs) == [i \in 1..Len(pairs) |-> pairs[i][2]]

(***************************************************************************)
(* core.py: the data model.                                                *)
(***************************************************************************)
Rectangle(id, w, h, rotatable) ==
    [id |-> id, w |-> w, h |-> h, rotatable |-> rotatable]

Placement(rect_id, x, y, w_eff, h_eff, rotated) ==
    [rect_id |-> rect_id, x |-> x, y |-> y,
     w_eff |-> w_eff, h_eff |-> h_eff, rotated |-> rotated]

Instance(W, rectangles, kerf_delta, forbidden_zones) ==
    [W |-> W, rectangles |-> rectangles, kerf_delta |-> kerf_delta,
     forbidden_zones |-> forbidden_zones]

Solution(H, placements, method, optimality) ==
    [H |-> H, placements |-> placements, method |-> method,
     optimality |-> optimality]

area(r) == r.w * r.h

\* math.ceil(A / W) for integers A >= 0, W > 0
area_lb(inst) ==
    LET A == SumSeq([i \in 1..Len(inst.rectangles) |-> area(inst.rectangles[i])])
    IN  (A + inst.W - 1) \div inst.W

\* max(min(r.h, r.w)) when rotation is allowed, else max(r.h)
maxh_lb(inst, allow) ==
    LET lowSide(r) == Min2(r.h, r.w)
        height(r) == r.h
    IN  IF allow THEN MaxSeq([i \in 1..Len(inst.rectangles) |-> lowSide(inst.rectangles[i])])
        ELSE MaxSeq([i \in 1..Len(inst.rectangles) |-> height(inst.rectangles[i])])

(***************************************************************************)
(* heuristics.py: HeuristicSolver.                                         *)
(***************************************************************************)
\* an exception: its type, its message and the values the message names
\* ValueError(f"Rectangle {r.id} width {w_eff} exceeds strip width {W}")
WidthError(id, width, W) ==
    [type |-> "ValueError",
     text |-> "Rectangle {id} width {width} exceeds strip width {W}",
     args |-> <<id, width, W>>]

\* _orient with the rectangle's own rotatable flag left unread
_orient_any(rect, allow, prefer_low) ==
    IF ~allow THEN <<rect.w, rect.h, FALSE>>
    ELSE IF prefer_low
         THEN IF rect.h <= rect.w THEN <<rect.w, rect.h, FALSE>>
              ELSE <<rect.h, rect.w, TRUE>>
         ELSE <<rect.w, rect.h, FALSE>>

\* _orient returns the tuple (w_eff, h_eff, rotated)
_orient(rect, allow, prefer_low) ==
    IF ~allow \/ ~rect.rotatable THEN <<rect.w, rect.h, FALSE>>
    ELSE IF prefer_low
         THEN IF rect.h <= rect.w THEN <<rect.w, rect.h, FALSE>>
              ELSE <<rect.h, rect.w, TRUE>>
         ELSE <<rect.w, rect.h, FALSE>>

\* _nfdh, lines 32-36: the items sorted by preferred height, tallest first
nfdh_items(inst, allow) ==
    LET pair(r) == <<_orient(r, allow, TRUE)[2], r>>
    IN  Items(sort_reverse([i \in 1..Len(inst.rectangles) |-> pair(inst.rectangles[i])]))

\* _nfdh, lines 38-42: the locals before the placement loop
nfdh_init ==
    [x |-> 0, shelf_y |-> 0, shelf_h |-> 0, first_in_shelf |-> TRUE,
     placements |-> <<>>, err |-> <<>>]

\* one iteration of the placement loop laying the items of a shelf edge to
\* edge, the kerf left out of the x of the item placed
nfdh_place_touching(st, r, W, d, allow) ==
    LET o == _orient(r, allow, TRUE)
        extra == IF st.first_in_shelf THEN 0 ELSE d
    IN  IF o[1] > W
        THEN [st EXCEPT !.err = <<WidthError(r.id, o[1], W)>>]
        ELSE IF st.x + extra + o[1] <= W
        THEN [st EXCEPT
                !.first_in_shelf = FALSE,
                !.placements = Append(@, Placement(r.id, st.x, st.shelf_y,
                                                   o[1], o[2], o[3])),
                !.x = st.x + o[1],
                !.shelf_h = Max2(st.shelf_h, o[2])]
        ELSE LET y1 == st.shelf_y + st.shelf_h
                        + (IF st.shelf_h > 0 THEN d ELSE 0)
             IN  [st EXCEPT
                    !.shelf_y = y1,
                    !.shelf_h = o[2],
                    !.first_in_shelf = FALSE,
                    !.placements = Append(@, Placement(r.id, 0, y1,
                                                       o[1], o[2], o[3])),
                    !.x = o[1]]

\* _nfdh, lines 43-62: one iteration of the placement loop
nfdh_place(st, r, W, d, allow) ==
    LET o == _orient(r, allow, TRUE)
        w_eff == o[1]
        h_eff == o[2]
        rotated == o[3]
        extra == IF st.first_in_shelf THEN 0 ELSE d
    IN  IF w_eff > W
        THEN [st EXCEPT !.err = <<WidthError(r.id, w_eff, W)>>]
        ELSE IF st.x + extra + w_eff <= W
        THEN LET x1 == st.x + (IF st.first_in_shelf THEN 0 ELSE d)
             IN  [st EXCEPT
                    !.first_in_shelf = FALSE,
                    !.placements = Append(@, Placement(r.id, x1, st.shelf_y,
                                                       w_eff, h_eff, rotated)),
                    !.x = x1 + w_eff,
                    !.shelf_h = Max2(st.shelf_h, h_eff)]
        ELSE LET y1 == st.shelf_y + st.shelf_h
                        + (IF st.shelf_h > 0 THEN d ELSE 0)
             IN  [st EXCEPT
                    !.shelf_y = y1,
                    !.shelf_h = h_eff,
                    !.first_in_shelf = FALSE,
                    !.placements = Append(@, Placement(r.id, 0, y1,
                                                       w_eff, h_eff, rotated)),
                    !.x = w_eff]

\* _nfdh, lines 64-65
nfdh_result(st) ==
    Solution(st.shelf_y + st.shelf_h, st.placements, "Heuristic-NFDH", "feasible")

\* _skyline, lines 75-76: rects sorted by the longer side (or the height)
skyline_rects(inst, allow) ==
    LET pair(r) == <<IF allow THEN Max2(r.h, r.w) ELSE r.h, r>>
    IN  Items(sort_reverse([i \in 1..Len(inst.rectangles) |-> pair(inst.rectangles[i])]))

\* find_position: None is <<>>, a candidate is <<xs, y, i>>
RECURSIVE find_from(_, _, _, _)
find_from(skyline, w_eff, i, best) ==
    IF i > Len(skyline) THEN best
    ELSE LET xs == skyline[i][1]
             width == skyline[i][2]
             y == skyline[i][3]
             c == <<xs, y, i>>
         IN  IF width < w_eff THEN find_from(skyline, w_eff, i + 1, best)
             ELSE IF best = <<>> \/ c[2] < best[2]
                     \/ (c[2] = best[2] /\ c[1] < best[1])
                  THEN find_from(skyline, w_eff, i + 1, c)
                  ELSE find_from(skyline, w_eff, i + 1, best)

\* find_position taking the first segment wide enough, whatever its height
find_position_first(skyline, w_eff, h_eff) ==
    LET hosts == {i \in 1..Len(skyline) : skyline[i][2] >= w_eff}
    IN  IF hosts = {} THEN <<>>
        ELSE LET i == CHOOSE h \in hosts : \A j \in hosts : h <= j
             IN  <<skyline[i][1], skyline[i][3], i>>

find_position(skyline, w_eff, h_eff) == find_from(skyline, w_eff, 1, <<>>)

\* update_skyline, lines 92-104: the segments left of and right of the new one
RECURSIVE split_from(_, _, _, _)
split_from(skyline, x, x_end, i) ==
    IF i > Len(skyline) THEN <<>>
    ELSE LET xs == skyline[i][1]
             width == skyline[i][2]
             sy == skyline[i][3]
             xe == xs + width
             kept == IF xe <= x \/ xs >= x_end THEN <<skyline[i]>>
                     ELSE (IF xs < x THEN << <<xs, x - xs, sy>> >> ELSE <<>>)
                          \o (IF xe > x_end THEN << <<x_end, xe - x_end, sy>> >>
                              ELSE <<>>)
         IN  kept \o split_from(skyline, x, x_end, i + 1)

\* the merge pass keeping every segment as it is
merge_from_kept(merged, rest) == merged \o rest

\* update_skyline, lines 107-117: adjacent segments of equal height are merged
RECURSIVE merge_from(_, _)
merge_from(merged, rest) ==
    IF rest = <<>> THEN merged
    ELSE LET seg == Head(rest)
         IN  IF merged = <<>> THEN merge_from(<<seg>>, Tail(rest))
             ELSE LET last == merged[Len(merged)]
                  IN  IF last[3] = seg[3] /\ last[1] + last[2] = seg[1]
                      THEN merge_from(
                             [merged EXCEPT ![Len(merged)] =
                                 <<last[1], last[2] + seg[2], last[3]>>],
                             Tail(rest))
                      ELSE merge_from(Append(merged, seg), Tail(rest))

update_skyline(skyline, x, w_eff, y, h_eff) ==
    LET x_end == x + w_eff
        new_seg == <<x, w_eff, y + h_eff>>
        updated == Append(split_from(skyline, x, x_end, 1), new_seg)
        byX(seg) == <<seg[1], seg>>
        sorted == Items(sort_key([i \in 1..Len(updated) |-> byX(updated[i])]))
    IN  merge_from(<<>>, sorted)

\* _skyline, lines 72-74: the locals before the placement loop
skyline_init(W) ==
    [skyline |-> << <<0, W, 0>> >>, placements |-> <<>>, err |-> <<>>]

\* the placement loop of _skyline with the width test left out
skyline_place_unchecked(st, r, W, allow) ==
    LET o == _orient(r, allow, TRUE)
        pos == find_position(st.skyline, o[1], o[2])
        heights == [i \in 1..Len(st.skyline) |-> st.skyline[i][3]]
        x == IF pos = <<>> THEN 0 ELSE pos[1]
        y == IF pos = <<>> THEN MaxSeq(heights) ELSE pos[2]
    IN  [st EXCEPT
            !.placements = Append(@, Placement(r.id, x, y, o[1], o[2], o[3])),
            !.skyline = update_skyline(st.skyline, x, o[1], y, o[2])]

\* _skyline, lines 120-131: one iteration of the placement loop
skyline_place(st, r, W, allow) ==
    LET o == _orient(r, allow, TRUE)
        w_eff == o[1]
        h_eff == o[2]
        rotated == o[3]
        pos == find_position(st.skyline, w_eff, h_eff)
        heights == [i \in 1..Len(st.skyline) |-> st.skyline[i][3]]
        x == IF pos = <<>> THEN 0 ELSE pos[1]
        y == IF pos = <<>> THEN MaxSeq(heights) ELSE pos[2]
    IN  IF w_eff > W
        THEN [st EXCEPT !.err = <<WidthError(r.id, w_eff, W)>>]
        ELSE [st EXCEPT
                !.placements = Append(@, Placement(r.id, x, y, w_eff, h_eff, rotated)),
                !.skyline = update_skyline(st.skyline, x, w_eff, y, h_eff)]

\* the result of _skyline with H taken over the bottoms of the placements
skyline_result_bottoms(st) ==
    LET bottoms == [i \in 1..Len(st.placements) |-> st.placements[i].y]
    IN  Solution(IF st.placements = <<>> THEN 0 ELSE MaxSeq(bottoms),
                 st.placements, "Heuristic-Skyline", "feasible")

\* _skyline, lines 133-134
skyline_result(st) ==
    LET tops == [i \in 1..Len(st.placements) |->
                    st.placements[i].y + st.placements[i].h_eff]
    IN  Solution(IF st.placements = <<>> THEN 0 ELSE MaxSeq(tops),
                 st.placements, "Heuristic-Skyline", "feasible")

\* a whole placement loop: stops at the first rectangle that raises
RECURSIVE nfdh_loop(_, _, _, _, _)
nfdh_loop(st, items, W, d, allow) ==
    IF items = <<>> \/ st.err # <<>> THEN st
    ELSE nfdh_loop(nfdh_place(st, Head(items), W, d, allow), Tail(items), W, d, allow)

RECURSIVE skyline_loop(_, _, _, _)
skyline_loop(st, rects, W, allow) ==
    IF rects = <<>> \/ st.err # <<>> THEN st
    ELSE skyline_loop(skyline_place(st, Head(rects), W, allow), Tail(rects), W, allow)

\* the outcome of a call: [sol |-> <<Solution>>, err |-> <<>>] or
\* [sol |-> <<>>, err |-> <<error>>]
Returned(s) == [sol |-> <<s>>, err |-> <<>>]
Raised(e) == [sol |-> <<>>, err |-> <<e>>]

_nfdh(inst, allow) ==
    LET st == nfdh_loop(nfdh_init, nfdh_items(inst, allow), inst.W,
                        inst.kerf_delta, allow)
    IN  IF st.err # <<>> THEN Raised(st.err[1]) ELSE Returned(nfdh_result(st))

_skyline(inst, allow, guillotine) ==
    IF guillotine THEN _nfdh(inst, allow)
    ELSE LET st == skyline_loop(skyline_init(inst.W), skyline_rects(inst, allow),
                                inst.W, allow)
         IN  IF st.err # <<>> THEN Raised(st.err[1])
             ELSE Returned(skyline_result(st))

\* HeuristicSolver.solve
heuristic_solve(inst, allow, policy, guillotine) ==
    IF policy = "NFDH" THEN _nfdh(inst, allow)
    ELSE IF policy = "Skyline" THEN _skyline(inst, allow, guillotine)
    ELSE Raised([type |-> "ValueError", text |-> "Unknown heuristic policy",
                 args |-> <<>>])

(***************************************************************************)
(* core.py: Solution.check_feasibility.                                    *)
(***************************************************************************)
\* lines 75-81: the bounds loop finds a placement outside the strip
out_of_bounds(s, inst) ==
    \E i \in 1..Len(s.placements) :
        LET p == s.placements[i]
        IN  p.x < 0 \/ p.y < 0 \/ p.x + p.w_eff > inst.W \/ p.y + p.h_eff > s.H

\* lines 83-85: the two id sets differ
ids_differ(s, inst) ==
    {inst.rectangles[i].id : i \in 1..Len(inst.rectangles)}
        # {s.placements[i].rect_id : i \in 1..Len(s.placements)}

\* the overlap test with strict comparisons: boxes that touch count as overlapping
pair_overlap_strict(s) ==
    \E i, j \in 1..Len(s.placements) :
        /\ i < j
        /\ LET a == s.placements[i]
               b == s.placements[j]
           IN  ~(\/ a.x + a.w_eff < b.x
                 \/ b.x + b.w_eff < a.x
                 \/ a.y + a.h_eff < b.y
                 \/ b.y + b.h_eff < a.y)

\* lines 87-90: some pair of placements has no separating axis
pair_overlap(s) ==
    \E i, j \in 1..Len(s.placements) :
        /\ i < j
        /\ LET a == s.placements[i]
               b == s.placements[j]
           IN  ~(\/ a.x + a.w_eff <= b.x
                 \/ b.x + b.w_eff <= a.x
                 \/ a.y + a.h_eff <= b.y
                 \/ b.y + b.h_eff <= a.y)

\* lines 92-99: some placement intersects a forbidden zone
zone_hit(s, inst) ==
    \E i \in 1..Len(s.placements) : \E k \in 1..Len(inst.forbidden_zones) :
        LET p == s.placements[i]
            z == inst.forbidden_zones[k]
            px1 == p.x
            py1 == p.y
            px2 == p.x + p.w_eff
            py2 == p.y + p.h_eff
            zx2 == z[1] + z[3]
            zy2 == z[2] + z[4]
        IN  ~(px2 <= z[1] \/ zx2 <= px1 \/ py2 <= z[2] \/ zy2 <= py1)

check_feasibility(s, inst) ==
    IF out_of_bounds(s, inst) THEN FALSE
    ELSE IF ids_differ(s, inst) THEN FALSE
    ELSE IF pair_overlap(s) THEN FALSE
    ELSE IF zone_hit(s, inst) THEN FALSE
    ELSE TRUE


(***************************************************************************)
(* metaheuristics.py: MetaheuristicSolver.  Every draw from the random     *)
(* module is a choice among the values the call can return.                *)
(***************************************************************************)
\* ValueError raised by random.sample(range(n), 2) when n < 2
SampleError ==
    [type |-> "ValueError",
     text |-> "Sample larger than population or is negative",
     args |-> <<>>]

\* next(r for r in instance.rectangles if r.id == rid)
RECURSIVE rect_from(_, _, _)
rect_from(rects, rid, i) ==
    IF rects[i].id = rid THEN rects[i] ELSE rect_from(rects, rid, i + 1)

rect_by_id(inst, rid) == rect_from(inst.rectangles, rid, 1)

\* _decode: the rectangles in permutation order, laid out by Skyline
_decode(inst, allow, strategy, perm, orient_bits) ==
    LET n == Min2(Len(perm), Len(orient_bits))
        rects == [k \in 1..n |->
                    LET r == rect_by_id(inst, perm[k])
                    IN  Rectangle(r.id, r.w, r.h, r.rotatable /\ allow)]
        tmp_inst == Instance(inst.W, rects, inst.kerf_delta, inst.forbidden_zones)
        out == heuristic_solve(tmp_inst, allow, "Skyline", FALSE)
    IN  IF out.err # <<>> THEN out
        ELSE Returned([out.sol[1] EXCEPT
                         !.method = "Meta-" \o strategy \o "-SkylineDecode"])

\* the orders random.shuffle can leave the ids in
shuffles(ids) ==
    LET n == Len(ids)
    IN  {[k \in 1..n |-> ids[f[k]]] :
            f \in {g \in [1..n -> 1..n] : \A a, b \in 1..n : a # b => g[a] # g[b]}}

\* _random_solution: the (perm, bits) pairs it can return
_random_solution(inst, allow) ==
    LET ids == [k \in 1..Len(inst.rectangles) |-> inst.rectangles[k].id]
        n == Len(ids)
    IN  UNION {
            {<<perm, bits>> :
                bits \in {c \in [1..n -> {0, 1}] :
                            \A k \in 1..n :
                                c[k] = 1 =>
                                    (allow /\ rect_by_id(inst, perm[k]).rotatable)}} :
            perm \in shuffles(ids)}

\* the index pairs (i, j), i # j, random.sample(range(n), 2) can return (1-based)
sample_two(n) == {ij \in (1..n) \X (1..n) : ij[1] # ij[2]}

swap(seq, i, j) == [seq EXCEPT ![i] = seq[j], ![j] = seq[i]]
flip(bits, k) == [bits EXCEPT ![k] = 1 - @]

\* _ox_crossover for the drawn cut points a < b (1-based, inclusive)
RECURSIVE ox_fill(_, _, _, _, _)
ox_fill(child, fill, i, a, b) ==
    IF i > Len(child) THEN child
    ELSE IF i >= a /\ i <= b THEN ox_fill(child, fill, i + 1, a, b)
    ELSE ox_fill([child EXCEPT ![i] = Head(fill)], Tail(fill), i + 1, a, b)

\* the crossover filling the open positions from the head of p2, the ids of
\* the copied segment not skipped
_ox_crossover_unskipped(p1, p2, a, b) == ox_fill(p1, p2, 1, a, b)

_ox_crossover(p1, p2, a, b) ==
    LET segment == {p1[k] : k \in a..b}
        fill == SelectSeq(p2, LAMBDA x : x \notin segment)
    IN  ox_fill(p1, fill, 1, a, b)

\* _bit_crossover: every per-position choice between the parents' bits
_bit_crossover(b1, b2) ==
    LET n == Min2(Len(b1), Len(b2))
    IN  {c \in [1..n -> {0, 1}] : \A k \in 1..n : c[k] \in {b1[k], b2[k]}}

\* _mutate: the (perm, bits) it can leave behind
_mutate(perm, bits) ==
    LET n == Len(perm)
        perms == {perm} \cup {swap(perm, ij[1], ij[2]) : ij \in sample_two(n)}
        flips == {[k \in 1..n |-> IF k \in S THEN 1 - bits[k] ELSE bits[k]] :
                     S \in SUBSET (1..n)}
    IN  perms \X flips

\* one pass of the reproduction loop of _run_ga (lines 66-71): the children
\* (perm, bits) it can produce from the parents' slice of the pool
ga_children(pool, population) ==
    LET parents == SubSeq(pool, 1, Min2(Len(pool), Max2(2, population \div 2)))
        n == Len(pool[1][2])
    IN  UNION {UNION {UNION {
            _mutate(_ox_crossover(parents[i][2], parents[j][2], ab[1], ab[2]), cb) :
                cb \in _bit_crossover(parents[i][3], parents[j][3])} :
                ab \in {c \in sample_two(n) : c[1] < c[2]}} :
                i \in 1..Len(parents), j \in 1..Len(parents)}

\* a pool entry (sol.H, perm, bits, sol)
entry(pb, s) == <<s.H, pb[1], pb[2], s>>
by_H(pool) == Items(sort_key([k \in 1..Len(pool) |-> <<pool[k][1], pool[k]>>]))

\* the best after a generation, were it always the head of the new pool
ga_best_pool(best, pool) == pool[1][4]

\* _run_ga lines 76-77: the best after a generation
ga_best(best, pool) == IF pool[1][1] < best.H THEN pool[1][4] ELSE best

\* _run_sa lines 117-122: the neighbours of the current state
sa_neighbours(perm, bits) ==
    {<<swap(perm, ij[1], ij[2]), flip(bits, k)>> :
        ij \in sample_two(Len(perm)), k \in 1..Len(bits)}

\* the acceptance step with best following every accepted candidate
sa_accept_last(f, cand_p, cand_b, cand_sol, lucky) ==
    LET dH == cand_sol.H - f.cur_sol.H
    IN  IF dH < 0 \/ lucky
        THEN [f EXCEPT !.start_perm = cand_p, !.start_bits = cand_b,
                       !.cur_sol = cand_sol, !.best = cand_sol]
        ELSE f

\* _run_sa lines 124-129: the locals after the acceptance test; `lucky` is
\* the outcome of random.random() < math.exp(-dH / max(T, 1e-6))
sa_accept(f, cand_p, cand_b, cand_sol, lucky) ==
    LET dH == cand_sol.H - f.cur_sol.H
    IN  IF dH < 0 \/ lucky
        THEN [f EXCEPT !.start_perm = cand_p, !.start_bits = cand_b,
                       !.cur_sol = cand_sol,
                       !.best = IF cand_sol.H < f.best.H THEN cand_sol ELSE f.best]
        ELSE f

\* the outcomes of the acceptance draw: exp(0) = 1 exceeds every random()
sa_draws(dH) == IF dH <= 0 THEN {TRUE} ELSE BOOLEAN

\* _run_tabu lines 143-150: one sampled move, <<key, perm, bits>>
tabu_moves(perm, bits) ==
    LET n == Len(perm)
    IN  UNION {
            {<<<<Min2(perm[ij[1]], perm[ij[2]]), Max2(perm[ij[1]], perm[ij[2]])>>,
               swap(perm, ij[1], ij[2]), cb>> :
                cb \in {bits} \cup {flip(bits, k) : k \in 1..Len(bits)}} :
            ij \in sample_two(n)}

\* _run_tabu line 138
tabu_tenure(perm) == Max2(5, Len(perm) \div 10)

\* _run_tabu lines 156-161: the locals after the round, before the eviction
tabu_move(f, best_nei) ==
    LET perm == best_nei[2]
        cur == best_nei[4]
    IN  [f EXCEPT !.perm = perm, !.bits = best_nei[3], !.cur = cur,
                  !.tabu = @ \cup {<<Min2(perm[1], perm[Len(perm)]),
                                     Max2(perm[1], perm[Len(perm)])>>},
                  !.best = IF cur.H < f.best.H THEN cur ELSE f.best]

(***************************************************************************)
(* level_milp.py: LevelMilpSolver.  The backend is external: it may hand   *)
(* back any assignment that satisfies the model it was given.  zH, zV are  *)
(* indexed by the position of the rectangle in the instance, then by level.*)
(***************************************************************************)
MaxS == 4        \* largest level height s[ell] an assignment uses

\* line 38: L = self.max_levels or n
level_L(max_levels, n) ==
    IF max_levels # <<>> /\ max_levels[1] # 0 THEN max_levels[1] ELSE n

\* an assignment with item k in level place[k][1], rotated iff place[k][2]
level_assignment(place, s, u) ==
    [zH |-> [k \in DOMAIN place |->
                [ell \in DOMAIN s |->
                    IF place[k] = <<ell, FALSE>> THEN 1 ELSE 0]],
     zV |-> [k \in DOMAIN place |->
                [ell \in DOMAIN s |->
                    IF place[k] = <<ell, TRUE>> THEN 1 ELSE 0]],
     s |-> s, u |-> u, H |-> SumSeq(s)]

\* the assignments of lines 46-54 in which every item has exactly one of its
\* binaries set (the others violate lines 60-62), the s do not grow (the
\* others violate lines 83-85) and H is the sum of the s
level_candidates(n, allow, L) ==
    {level_assignment(place, s, u) :
        place \in [1..n -> (1..L) \X (IF allow THEN BOOLEAN ELSE {FALSE})],
        s \in {t \in [1..L -> 0..MaxS] : \A ell \in 1..(L - 1) : t[ell] >= t[ell + 1]},
        u \in [1..L -> {0, 1}]}

\* lines 59-62
level_assigned(n, allow, L, a) ==
    \A k \in 1..n :
        SumSeq([ell \in 1..L |->
                   a.zH[k][ell] + (IF allow THEN a.zV[k][ell] ELSE 0)]) = 1

\* lines 64-73
level_width(inst, allow, L, a) ==
    \A ell \in 1..L :
        LET n == Len(inst.rectangles)
            count_ell == SumSeq([k \in 1..n |->
                            a.zH[k][ell] + (IF allow THEN a.zV[k][ell] ELSE 0)])
            width_ell == SumSeq([k \in 1..n |->
                            inst.rectangles[k].w * a.zH[k][ell]
                            + inst.rectangles[k].h
                                * (IF allow THEN a.zV[k][ell] ELSE 0)])
        IN  width_ell + inst.kerf_delta * (count_ell - 1) <= inst.W * a.u[ell]

\* lines 75-81
level_height(inst, allow, L, a) ==
    \A ell \in 1..L : \A k \in 1..Len(inst.rectangles) :
        /\ a.s[ell] >= inst.rectangles[k].h * a.zH[k][ell]
        /\ allow => a.s[ell] >= inst.rectangles[k].w * a.zV[k][ell]

\* lines 83-85
level_order(L, a) == \A ell \in 1..(L - 1) : a.s[ell] >= a.s[ell + 1]

\* lines 87-90
level_total(inst, allow, a) ==
    /\ a.H = SumSeq(a.s)
    /\ a.H >= area_lb(inst)
    /\ a.H >= maxh_lb(inst, allow)

\* the assignment satisfies every constraint of the Level model
level_satisfies(inst, allow, L, a) ==
    /\ level_assigned(Len(inst.rectangles), allow, L, a)
    /\ level_width(inst, allow, L, a)
    /\ level_height(inst, allow, L, a)
    /\ level_order(L, a)
    /\ level_total(inst, allow, a)

\* lines 106-116: the positions of the items of level ell, tallest first
level_ids_on(inst, allow, a, ell) ==
    LET on == SelectSeq([k \in 1..Len(inst.rectangles) |-> k],
                        LAMBDA k : a.zH[k][ell] = 1
                                      \/ (allow /\ a.zV[k][ell] = 1))
        eff_h(k) == IF allow /\ a.zV[k][ell] = 1 THEN inst.rectangles[k].w
                    ELSE inst.rectangles[k].h
    IN  Items(sort_reverse([i \in 1..Len(on) |-> <<eff_h(on[i]), on[i]>>]))

\* lines 118-130: the items of one level, left to right from x = 0
RECURSIVE level_row(_, _, _, _, _, _, _, _)
level_row(inst, allow, a, ell, ids_on, x, y, first) ==
    IF ids_on = <<>> THEN <<>>
    ELSE LET rect == inst.rectangles[Head(ids_on)]
             rotated == allow /\ a.zV[Head(ids_on)][ell] = 1
             wv == IF rotated THEN rect.h ELSE rect.w
             hv == IF rotated THEN rect.w ELSE rect.h
             x1 == IF first THEN x ELSE x + inst.kerf_delta
         IN  <<Placement(rect.id, x1, y, wv, hv, rotated)>>
                 \o level_row(inst, allow, a, ell, Tail(ids_on), x1 + wv, y, FALSE)

\* lines 97-131: the levels bottom-up; a level of height 0 is skipped
RECURSIVE level_rows(_, _, _, _, _, _)
level_rows(inst, allow, L, a, ell, y) ==
    IF ell > L THEN <<>>
    ELSE IF a.s[ell] <= 0 THEN level_rows(inst, allow, L, a, ell + 1, y)
    ELSE level_row(inst, allow, a, ell, level_ids_on(inst, allow, a, ell), 0, y, TRUE)
            \o level_rows(inst, allow, L, a, ell + 1,
                          y + a.s[ell] + inst.kerf_delta)

tops(placements) ==
    [i \in 1..Len(placements) |-> placements[i].y + placements[i].h_eff]

\* lines 133-139
level_solution(placements, status) ==
    Solution(IF placements = <<>> THEN 0 ELSE MaxSeq(tops(placements)),
             placements, "MILP-ShelfLevel", status)

level_decode(inst, allow, L, a, status) ==
    level_solution(level_rows(inst, allow, L, a, 1, 0), status)

(***************************************************************************)
(* milp.py: MilpSolver, the coordinate model.  An assignment gives x, y, r *)
(* by the position of the rectangle in the instance, and H; the disjunction*)
(* binaries are quantified where their constraints are stated.             *)
(***************************************************************************)
MaxY == 4        \* largest y an assignment uses
MaxSlack == 1    \* largest gap an assignment leaves between H and its need

\* lines 38-41 and 66-79: the bounds and the Big-M values
milp_setup(inst, allow, bigM_mode, hsol) ==
    LET width(r) == r.w
        height(r) == r.h
        sum_w == SumSeq([i \in 1..Len(inst.rectangles) |-> width(inst.rectangles[i])])
        sum_h == SumSeq([i \in 1..Len(inst.rectangles) |-> height(inst.rectangles[i])])
        H_ub == Max2(hsol.H, maxh_lb(inst, allow))
        LB == Max2(area_lb(inst), maxh_lb(inst, allow))
    IN  [H_ub |-> H_ub, LB |-> LB,
         Mx |-> IF bigM_mode = "tight" THEN inst.W + Max2(0, sum_w \div 2)
                ELSE inst.W + sum_w,
         My |-> IF bigM_mode = "tight" THEN Max2(H_ub, LB) + Max2(0, sum_h \div 2)
                ELSE LB + sum_h]

\* lines 55-64
milp_w_eff(rect, allow, r) ==
    IF ~allow \/ ~rect.rotatable THEN rect.w
    ELSE (1 - r) * rect.w + r * rect.h

milp_h_eff(rect, allow, r) ==
    IF ~allow \/ ~rect.rotatable THEN rect.h
    ELSE (1 - r) * rect.h + r * rect.w

\* lines 84-87, for the rectangle at position k
milp_strip_x(inst, allow, a, k) ==
    a.x[k] + milp_w_eff(inst.rectangles[k], allow, a.r[k]) <= inst.W

milp_strip_y(inst, allow, a, k) ==
    a.y[k] + milp_h_eff(inst.rectangles[k], allow, a.r[k]) <= a.H

\* 1 for the binary the selector sets, 0 for the other three
bit(sel, name) == IF sel = name THEN 1 ELSE 0

\* the non-overlap constraints of a pair with the kerf left out
milp_no_overlap_touching(inst, allow, M, a, i, j) ==
    LET wi == milp_w_eff(inst.rectangles[i], allow, a.r[i])
        hi == milp_h_eff(inst.rectangles[i], allow, a.r[i])
        wj == milp_w_eff(inst.rectangles[j], allow, a.r[j])
        hj == milp_h_eff(inst.rectangles[j], allow, a.r[j])
    IN  \E b \in {"L", "R", "U", "D"} :
            /\ a.x[i] + wi <= a.x[j] + M.Mx * (1 - bit(b, "L"))
            /\ a.x[j] + wj <= a.x[i] + M.Mx * (1 - bit(b, "R"))
            /\ a.y[i] + hi <= a.y[j] + M.My * (1 - bit(b, "D"))
            /\ a.y[j] + hj <= a.y[i] + M.My * (1 - bit(b, "U"))

\* lines 89-110, for the pair of positions i < j
milp_no_overlap(inst, allow, M, a, i, j) ==
    LET wi == milp_w_eff(inst.rectangles[i], allow, a.r[i])
        hi == milp_h_eff(inst.rectangles[i], allow, a.r[i])
        wj == milp_w_eff(inst.rectangles[j], allow, a.r[j])
        hj == milp_h_eff(inst.rectangles[j], allow, a.r[j])
        d == inst.kerf_delta
    IN  \E b \in {"L", "R", "U", "D"} :
            /\ a.x[i] + wi + d <= a.x[j] + M.Mx * (1 - bit(b, "L"))
            /\ a.x[j] + wj + d <= a.x[i] + M.Mx * (1 - bit(b, "R"))
            /\ a.y[i] + hi + d <= a.y[j] + M.My * (1 - bit(b, "D"))
            /\ a.y[j] + hj + d <= a.y[i] + M.My * (1 - bit(b, "U"))

\* lines 112-136, for the rectangle at position i
milp_zones(inst, allow, M, a, i) ==
    \A k \in 1..Len(inst.forbidden_zones) :
        LET wi == milp_w_eff(inst.rectangles[i], allow, a.r[i])
            hi == milp_h_eff(inst.rectangles[i], allow, a.r[i])
            zone == inst.forbidden_zones[k]
            d == inst.kerf_delta
        IN  \E z \in {"L", "R", "U", "D"} :
                /\ a.x[i] + wi <= zone[1] + M.Mx * (1 - bit(z, "L"))
                /\ zone[1] + zone[3] <= a.x[i] + M.Mx * (1 - bit(z, "R"))
                /\ a.y[i] + hi + d <= zone[2] + M.My * (1 - bit(z, "D"))
                /\ zone[2] + zone[4] + d <= a.y[i] + M.My * (1 - bit(z, "U"))

\* lines 138-140
milp_lower_bounds(inst, allow, a) ==
    /\ a.H >= area_lb(inst)
    /\ a.H >= maxh_lb(inst, allow)

\* lines 143-144: max() keeps the first rectangle of the largest key
milp_tallest(inst, allow) ==
    LET key(k) == IF allow THEN Max2(inst.rectangles[k].h, inst.rectangles[k].w)
                  ELSE inst.rectangles[k].h
    IN  CHOOSE k \in 1..Len(inst.rectangles) :
            /\ \A j \in 1..Len(inst.rectangles) : key(j) <= key(k)
            /\ \A j \in 1..(k - 1) : key(j) < key(k)

\* line 145
milp_anchor(inst, allow, a) == a.x[milp_tallest(inst, allow)] = 0

\* line 149: by_id keeps the last placement of an id
by_id(placements, rid) ==
    LET at == {i \in 1..Len(placements) : placements[i].rect_id = rid}
    IN  IF at = {} THEN <<>>
        ELSE <<placements[CHOOSE i \in at : \A j \in at : j <= i]>>

\* IndexError raised by a list subscript out of range
IndexError ==
    [type |-> "IndexError", text |-> "list index out of range", args |-> <<>>]

\* self.instance.rectangles[rid-1] (line 156): the id is read as a position,
\* a negative index counts from the end; <<>> when it is out of range
rect_at(inst, rid) ==
    LET n == Len(inst.rectangles)
        i == rid - 1
    IN  IF 0 <= i /\ i < n THEN <<inst.rectangles[i + 1]>>
        ELSE IF -n <= i /\ i < 0 THEN <<inst.rectangles[n + i + 1]>>
        ELSE <<>>

\* lines 148-160: the exception the seeding loop raises, <<>> when it raises
\* none; the subscript of line 156 is evaluated only when rotation is allowed
milp_warm_start(inst, allow, cfg, hsol) ==
    IF cfg.warm_start /\ allow
          /\ \E k \in 1..Len(inst.rectangles) :
                /\ by_id(hsol.placements, inst.rectangles[k].id) # <<>>
                /\ rect_at(inst, inst.rectangles[k].id) = <<>>
    THEN <<IndexError>>
    ELSE <<>>

\* lines 161-170, for the rectangle at position k
milp_guide(inst, cfg, hsol, a, k) ==
    (cfg.warm_start /\ inst.kerf_delta = 0 /\ cfg.guide_radius > 0) =>
        LET p == by_id(hsol.placements, inst.rectangles[k].id)
        IN  p # <<>> =>
                /\ a.x[k] >= Max2(0, p[1].x - cfg.guide_radius)
                /\ a.x[k] <= p[1].x + cfg.guide_radius
                /\ a.y[k] >= Max2(0, p[1].y - cfg.guide_radius)
                /\ a.y[k] <= p[1].y + cfg.guide_radius

\* the constraints that read the variables of the rectangle at k and no other
milp_alone(inst, allow, cfg, hsol, M, a, k) ==
    /\ milp_strip_x(inst, allow, a, k)
    /\ milp_zones(inst, allow, M, a, k)
    /\ milp_guide(inst, cfg, hsol, a, k)
    /\ k = milp_tallest(inst, allow) => milp_anchor(inst, allow, a)

\* the assignment satisfies every constraint of the coordinate model
milp_satisfies(inst, allow, cfg, hsol, M, a) ==
    /\ a.H >= M.LB
    /\ milp_lower_bounds(inst, allow, a)
    /\ milp_anchor(inst, allow, a)
    /\ \A k \in 1..Len(inst.rectangles) :
        /\ milp_alone(inst, allow, cfg, hsol, M, a, k)
        /\ milp_strip_y(inst, allow, a, k)
    /\ \A i \in 1..Len(inst.rectangles) : \A j \in (i + 1)..Len(inst.rectangles) :
        milp_no_overlap(inst, allow, M, a, i, j)

\* lines 46-53: the values x, y, r of one rectangle range over; r of a
\* rectangle that may not turn is read nowhere and is kept 0
milp_values(inst, allow, k) ==
    [x : 0..inst.W, y : 0..MaxY,
     r : IF allow /\ inst.rectangles[k].rotatable THEN {0, 1} ELSE {0}]

\* an assignment giving every rectangle the values v
milp_same(n, v, H) ==
    [x |-> [k \in 1..n |-> v.x], y |-> [k \in 1..n |-> v.y],
     r |-> [k \in 1..n |-> v.r], H |-> H]

\* the values the rectangle at k can take in a satisfying assignment
milp_values_ok(inst, allow, cfg, hsol, M, k) ==
    {v \in milp_values(inst, allow, k) :
        milp_alone(inst, allow, cfg, hsol, M,
                   milp_same(Len(inst.rectangles), v, 0), k)}

\* the least H the strip bounds and the lowBound of H (line 48) allow
milp_need(inst, allow, LB, f) ==
    Max2(LB, MaxSeq([k \in DOMAIN f |->
                        f[k].y + milp_h_eff(inst.rectangles[k], allow, f[k].r)]))

\* the satisfying assignments within the bounds
milp_answers(inst, allow, cfg, hsol, M) ==
    LET n == Len(inst.rectangles)
        ok == [k \in 1..n |-> milp_values_ok(inst, allow, cfg, hsol, M, k)]
        each == {f \in [1..n -> UNION {ok[k] : k \in 1..n}] :
                    \A k \in 1..n : f[k] \in ok[k]}
        all == UNION {
                 {[x |-> [k \in 1..n |-> f[k].x], y |-> [k \in 1..n |-> f[k].y],
                   r |-> [k \in 1..n |-> f[k].r], H |-> H] :
                     H \in milp_need(inst, allow, M.LB, f)
                              ..(milp_need(inst, allow, M.LB, f) + MaxSlack)} :
                 f \in each}
    IN  {a \in all : milp_satisfies(inst, allow, cfg, hsol, M, a)}

\* every constraint of the coordinate model but the anchor of line 145
milp_satisfies_free(inst, allow, cfg, hsol, M, a) ==
    /\ a.H >= M.LB
    /\ milp_lower_bounds(inst, allow, a)
    /\ \A k \in 1..Len(inst.rectangles) :
        /\ milp_strip_x(inst, allow, a, k)
        /\ milp_strip_y(inst, allow, a, k)
        /\ milp_zones(inst, allow, M, a, k)
        /\ milp_guide(inst, cfg, hsol, a, k)
    /\ \A i \in 1..Len(inst.rectangles) : \A j \in (i + 1)..Len(inst.rectangles) :
        milp_no_overlap(inst, allow, M, a, i, j)

\* the assignments within the bounds that satisfy the model without the anchor
milp_answers_free(inst, allow, cfg, hsol, M) ==
    LET n == Len(inst.rectangles)
        each == {f \in [1..n -> UNION {milp_values(inst, allow, k) : k \in 1..n}] :
                    \A k \in 1..n : f[k] \in milp_values(inst, allow, k)}
        all == UNION {
                 {[x |-> [k \in 1..n |-> f[k].x], y |-> [k \in 1..n |-> f[k].y],
                   r |-> [k \in 1..n |-> f[k].r], H |-> H] :
                     H \in milp_need(inst, allow, M.LB, f)
                              ..(milp_need(inst, allow, M.LB, f) + MaxSlack)} :
                 f \in each}
    IN  {a \in all : milp_satisfies_free(inst, allow, cfg, hsol, M, a)}

\* lines 177-188
milp_placements(inst, allow, a) ==
    [k \in 1..Len(inst.rectangles) |->
        LET rect == inst.rectangles[k]
        IN  IF allow /\ rect.rotatable
            THEN Placement(rect.id, a.x[k], a.y[k],
                           IF a.r[k] = 1 THEN rect.h ELSE rect.w,
                           IF a.r[k] = 1 THEN rect.w ELSE rect.h,
                           a.r[k] # 0)
            ELSE Placement(rect.id, a.x[k], a.y[k], rect.w, rect.h, FALSE)]

\* lines 190-197
milp_decode(inst, allow, a, status) ==
    Solution(IF a.H # 0 THEN a.H
             ELSE MaxSeq(tops(milp_placements(inst, allow, a))),
             milp_placements(inst, allow, a),
             "MILP-Coordinate-Extended", status)

(***************************************************************************)
(* Inputs: the instances a caller may hand to a solver.                    *)
(***************************************************************************)
\* lists of 1..n rectangles shaped by `shapes` (<<w, h, rotatable>>), ids 1..n
RectLists(shapes, sizes) ==
    UNION {
        {[i \in 1..n |-> Rectangle(i, f[i][1], f[i][2], f[i][3])] :
            f \in [1..n -> shapes]} : n \in sizes}

\* no zone, or the zone covering the full strip width over y in [0, 1)
ZoneLists(W) == {<<>>, << <<0, 0, W, 1>> >>}

InstancesOver(shapes, sizes, widths, kerfs) ==
    UNION {
        {Instance(W, rl, d, z) :
            rl \in RectLists(shapes, sizes), d \in kerfs, z \in ZoneLists(W)} :
        W \in widths}

AllShapes == Dims \X Dims \X BOOLEAN

(***************************************************************************)
(* The solver objects and their solve() calls, as a state machine.         *)
(***************************************************************************)
NoSelf == [kind |-> "none"]
NoFrame == [method |-> "none"]

InitWith(instances) ==
    /\ instance \in instances
    /\ allow_rotation = TRUE          \* the constructors' default
    /\ self = NoSelf
    /\ pc = "new"
    /\ frame = NoFrame
    /\ sol = <<>>
    /\ err = <<>>
    /\ decoded = {}

\* HeuristicSolver.__init__
NewHeuristic ==
    /\ pc = "new"
    /\ \E allow \in BOOLEAN, policy \in {"NFDH", "Skyline"}, guillotine \in BOOLEAN :
        /\ allow_rotation' = allow
        /\ self' = [kind |-> "Heuristic", policy |-> policy, guillotine |-> guillotine]
    /\ pc' = "constructed"
    /\ UNCHANGED <<instance, frame, sol, err, decoded>>

\* HeuristicSolver.solve dispatching to _nfdh (also from _skyline when guillotine)
EnterNfdh ==
    /\ pc = "constructed" /\ self.kind = "Heuristic"
    /\ self.policy = "NFDH" \/ (self.policy = "Skyline" /\ self.guillotine)
    /\ frame' = [method |-> "_nfdh",
                 items |-> nfdh_items(instance, allow_rotation),
                 st |-> nfdh_init]
    /\ pc' = "placing"
    /\ UNCHANGED <<instance, allow_rotation, self, sol, err, decoded>>

\* HeuristicSolver.solve dispatching to _skyline
EnterSkyline ==
    /\ pc = "constructed" /\ self.kind = "Heuristic"
    /\ self.policy = "Skyline" /\ ~self.guillotine
    /\ frame' = [method |-> "_skyline",
                 items |-> skyline_rects(instance, allow_rotation),
                 st |-> skyline_init(instance.W)]
    /\ pc' = "placing"
    /\ UNCHANGED <<instance, allow_rotation, self, sol, err, decoded>>

\* one iteration of the placement loop of _nfdh or _skyline; a rectangle that
\* is too wide ends the call with the error
PlaceNext ==
    /\ pc = "placing" /\ frame.items # <<>>
    /\ LET r == Head(frame.items)
           st1 == IF frame.method = "_nfdh"
                  THEN nfdh_place(frame.st, r, instance.W, instance.kerf_delta,
                                  allow_rotation)
                  ELSE skyline_place(frame.st, r, instance.W, allow_rotation)
       IN  /\ frame' = [frame EXCEPT !.items = Tail(@), !.st = st1]
           /\ IF st1.err # <<>>
              THEN pc' = "raised" /\ err' = st1.err
              ELSE pc' = "placing" /\ err' = err
    /\ UNCHANGED <<instance, allow_rotation, self, sol, decoded>>

\* the return statement of _nfdh or _skyline
HeuristicReturn ==
    /\ pc = "placing" /\ frame.items = <<>>
    /\ sol' = <<IF frame.method = "_nfdh" THEN nfdh_result(frame.st)
                ELSE skyline_result(frame.st)>>
    /\ pc' = "returned"
    /\ UNCHANGED <<instance, allow_rotation, self, frame, err, decoded>>

NextHeur == NewHeuristic \/ EnterNfdh \/ EnterSkyline \/ PlaceNext \/ HeuristicReturn

(***************************************************************************)
(* MetaheuristicSolver: construction and the three search loops.  The wall *)
(* clock is not modelled: a deadline test may find the deadline passed at  *)
(* any iteration, and no loop runs more than MaxIter iterations.           *)
(***************************************************************************)
GaSizes == {<<2, 1>>, <<1, 0>>}  \* (population, elite) a caller passes to GA
TimeLimits == {<<1>>}      \* time_limit values: <<>> is None
MaxIter == 2               \* loop iterations before the deadline has passed
Samples == 2               \* sampled moves per Tabu round (range(30) in the code)
max_iter == 10000          \* _run_sa: the iteration budget

truthy(time_limit) == time_limit # <<>> /\ time_limit[1] # 0

\* MetaheuristicSolver.__init__, the time_limit among `limits`
NewMetaWith(limits) ==
    /\ pc = "new"
    /\ \E allow \in BOOLEAN, strategy \in {"GA", "SA", "Tabu"},
          tl \in limits, pe \in GaSizes :
        /\ strategy # "GA" => pe = <<2, 1>>     \* unused by SA and Tabu
        /\ allow_rotation' = allow
        /\ self' = [kind |-> "Meta", strategy |-> strategy, time_limit |-> tl,
                    population |-> pe[1], elite |-> pe[2]]
    /\ pc' = "constructed"
    /\ UNCHANGED <<instance, frame, sol, err, decoded>>

NewMeta == NewMetaWith(TimeLimits)

\* the outcomes of consecutive _decode calls on a list of (perm, bits)
decode_each(inst, allow, strategy, pbs) ==
    [k \in 1..Len(pbs) |-> _decode(inst, allow, strategy, pbs[k][1], pbs[k][2])]

\* the first exception among the outcomes of consecutive _decode calls
first_error(outs) ==
    LET k == CHOOSE i \in 1..Len(outs) :
                 /\ outs[i].err # <<>>
                 /\ \A j \in 1..(i - 1) : outs[j].err = <<>>
    IN  outs[k].err[1]

any_error(outs) == \E i \in 1..Len(outs) : outs[i].err # <<>>

\* the pool entries of decoded (perm, bits), and the heights decoded
entries(pbs, outs) == [k \in 1..Len(pbs) |-> entry(pbs[k], outs[k].sol[1])]
heights(outs) == {outs[k].sol[1].H : k \in 1..Len(outs)}

Raise(e) ==
    /\ pc' = "raised"
    /\ err' = <<e>>
    /\ UNCHANGED <<instance, allow_rotation, self, frame, sol, decoded>>

\* the loop goes on with the locals `f`, having decoded solutions of heights `hs`
Continue(f, hs) ==
    /\ frame' = f
    /\ decoded' = decoded \cup hs
    /\ pc' = "loop"
    /\ UNCHANGED <<instance, allow_rotation, self, sol, err>>

Return(s) ==
    /\ sol' = <<s>>
    /\ pc' = "returned"
    /\ UNCHANGED <<instance, allow_rotation, self, frame, err, decoded>>

\* _run_ga lines 58-59: the locals once the initial pool is sorted
ga_frame(pool) ==
    [method |-> "_run_ga", pool |-> pool, best |-> pool[1][4], it |-> 0]

GaStarted(rs, outs) ==
    IF any_error(outs) THEN Raise(first_error(outs))
    ELSE Continue(ga_frame(by_H(entries(rs, outs))), heights(outs))

\* _run_ga lines 51-59: the initial pool
GaStart ==
    /\ pc = "constructed" /\ self.kind = "Meta" /\ self.strategy = "GA"
    /\ \E rs \in [1..self.population -> _random_solution(instance, allow_rotation)] :
        GaStarted(rs, decode_each(instance, allow_rotation, "GA", rs))

\* _run_ga line 63
ga_elite(pool, elite) == SubSeq(pool, 1, Min2(elite, Len(pool)))

\* _run_ga lines 74-77: the locals after the generation's sort
ga_next(f, new_pool) ==
    [f EXCEPT !.pool = new_pool, !.best = ga_best(f.best, new_pool), !.it = @ + 1]

GaBred(kept, ch, outs) ==
    IF any_error(outs) THEN Raise(first_error(outs))
    ELSE Continue(ga_next(frame, by_H(kept \o entries(ch, outs))), heights(outs))

\* _run_ga lines 61-77: one generation
GaGeneration ==
    /\ pc = "loop" /\ frame.method = "_run_ga" /\ frame.it < MaxIter
    /\ IF self.population > Len(ga_elite(frame.pool, self.elite))
          /\ Len(frame.pool[1][2]) < 2
       THEN Raise(SampleError)
       ELSE \E ch \in [1..Max2(self.population
                                 - Len(ga_elite(frame.pool, self.elite)), 0)
                         -> ga_children(frame.pool, self.population)] :
                GaBred(ga_elite(frame.pool, self.elite), ch,
                       decode_each(instance, allow_rotation, "GA", ch))

\* _run_sa lines 110-114: the locals before the loop
sa_frame(rs, s) ==
    [method |-> "_run_sa", start_perm |-> rs[1], start_bits |-> rs[2],
     cur_sol |-> s, best |-> s, it |-> 0]

SaStarted(rs, out) ==
    IF out.err # <<>> THEN Raise(out.err[1])
    ELSE Continue(sa_frame(rs, out.sol[1]), {out.sol[1].H})

\* _run_sa lines 109-114
SaStart ==
    /\ pc = "constructed" /\ self.kind = "Meta" /\ self.strategy = "SA"
    /\ \E rs \in _random_solution(instance, allow_rotation) :
        SaStarted(rs, _decode(instance, allow_rotation, "SA", rs[1], rs[2]))

SaTried(nb, out) ==
    IF out.err # <<>> THEN Raise(out.err[1])
    ELSE \E lucky \in sa_draws(out.sol[1].H - frame.cur_sol.H) :
            Continue([sa_accept(frame, nb[1], nb[2], out.sol[1], lucky)
                        EXCEPT !.it = @ + 1],
                     {out.sol[1].H})

\* _run_sa lines 115-129: one iteration
SaIterate ==
    /\ pc = "loop" /\ frame.method = "_run_sa"
    /\ frame.it < MaxIter /\ frame.it < max_iter
    /\ IF Len(frame.start_perm) < 2 THEN Raise(SampleError)
       ELSE \E nb \in sa_neighbours(frame.start_perm, frame.start_bits) :
            SaTried(nb, _decode(instance, allow_rotation, "SA", nb[1], nb[2]))

\* _run_tabu lines 135-139: the locals before the loop
tabu_frame(rs, s) ==
    [method |-> "_run_tabu", perm |-> rs[1], bits |-> rs[2], cur |-> s,
     best |-> s, tabu |-> {}, tenure |-> tabu_tenure(rs[1]), it |-> 0]

TabuStarted(rs, out) ==
    IF out.err # <<>> THEN Raise(out.err[1])
    ELSE Continue(tabu_frame(rs, out.sol[1]), {out.sol[1].H})

\* _run_tabu lines 134-139
TabuStart ==
    /\ pc = "constructed" /\ self.kind = "Meta" /\ self.strategy = "Tabu"
    /\ \E rs \in _random_solution(instance, allow_rotation) :
        TabuStarted(rs, _decode(instance, allow_rotation, "Tabu", rs[1], rs[2]))

\* _run_tabu lines 158-159: tabu.pop() removes an arbitrary element
TabuEvict(f, hs) ==
    IF Cardinality(f.tabu) > f.tenure
    THEN \E victim \in f.tabu : Continue([f EXCEPT !.tabu = @ \ {victim}], hs)
    ELSE Continue(f, hs)

\* the (perm, bits) of the sampled moves
moved(free) == [k \in 1..Len(free) |-> <<free[k][2], free[k][3]>>]

TabuSampled(free, outs) ==
    IF any_error(outs) THEN Raise(first_error(outs))
    ELSE IF free = <<>> THEN Return(frame.best)
    ELSE TabuEvict([tabu_move(frame, by_H(entries(moved(free), outs))[1])
                      EXCEPT !.it = IF truthy(self.time_limit) THEN @ + 1 ELSE @],
                   heights(outs))

\* every move a round can sample, paired with the outcome of decoding it
tabu_decoded(inst, allow, perm, bits) ==
    {<<m, _decode(inst, allow, "Tabu", m[2], m[3])>> : m \in tabu_moves(perm, bits)}

\* the sampled moves that are not tabu (line 145); only these are decoded
not_tabu(draws, tabu) == SelectSeq(draws, LAMBDA d : d[1][1] \notin tabu)

TabuFree(free) ==
    TabuSampled([k \in 1..Len(free) |-> free[k][1]],
                [k \in 1..Len(free) |-> free[k][2]])

\* _run_tabu lines 141-161: one round; an empty neighbourhood ends the search.
\* `it` counts the rounds against the deadline of line 140; without a
\* time_limit the loop test reads no clock and no round is counted
TabuRound ==
    /\ pc = "loop" /\ frame.method = "_run_tabu" /\ frame.it < MaxIter
    /\ IF Len(frame.perm) < 2 THEN Raise(SampleError)
       ELSE \E draws \in [1..Samples -> tabu_decoded(instance, allow_rotation,
                                                     frame.perm, frame.bits)] :
            TabuFree(not_tabu(draws, frame.tabu))

\* the loop test finds the deadline passed (or the iteration budget used up):
\* the search returns the tracked best.  GA falls back on 5.0 seconds when
\* time_limit is None or 0 (line 61); SA without a time_limit runs out of
\* range(max_iter), which the model cuts to MaxIter iterations
MetaReturn ==
    /\ pc = "loop"
    /\ \/ frame.method = "_run_ga"
       \/ frame.method = "_run_sa"
            /\ (truthy(self.time_limit) \/ frame.it >= Min2(max_iter, MaxIter))
       \/ frame.method = "_run_tabu" /\ truthy(self.time_limit)
    /\ Return(frame.best)

NextMeta ==
    NewMeta \/ GaStart \/ GaGeneration \/ SaStart \/ SaIterate
        \/ TabuStart \/ TabuRound \/ MetaReturn

\* instances of three rectangles tied in the Skyline sort key, where the order
\* of the permutation changes the height of the layout
MetaShapes == {<<1, 3, FALSE>>, <<3, 1, TRUE>>, <<1, 3, TRUE>>}
MetaInstances ==
    {Instance(3, rl, 0, <<>>) :
        rl \in RectLists(MetaShapes, {1, 2}) \cup
               {t \in RectLists(MetaShapes, {3}) :
                    t[1].w = 1 /\ t[2].w = 3 /\ t[3] = [t[1] EXCEPT !.id = 3]}}

InitMeta == InitWith(MetaInstances)
SpecMeta == InitMeta /\ [][NextMeta]_vars

\* the searches under every kind of time_limit: a number of seconds, 0, None
AnyTimeLimits == {<<1>>, <<0>>, <<>>}
NewMetaAny == NewMetaWith(AnyTimeLimits)
NextLimits ==
    NewMetaAny \/ GaStart \/ GaGeneration \/ SaStart \/ SaIterate
        \/ TabuStart \/ TabuRound \/ MetaReturn
\* the wall clock keeps advancing: a loop that goes on testing its deadline
\* eventually finds it passed
SpecLimits == InitMeta /\ [][NextLimits]_vars /\ WF_vars(MetaReturn)

(***************************************************************************)
(* The two MILP solvers.  solve() builds the model, the backend answers    *)
(* with an assignment that satisfies it, and solve() decodes the answer.   *)
(* A model without a satisfying assignment within the bounds gives no step.*)
(***************************************************************************)
MaxLevelsArgs == {<<>>, <<1>>}    \* max_levels values: <<>> is None
GuideRadii == {0, 2}              \* guide_radius values (default 2)

\* LevelMilpSolver.__init__
NewLevelMilp ==
    /\ pc = "new"
    /\ \E allow \in BOOLEAN, max_levels \in MaxLevelsArgs :
        /\ allow_rotation' = allow
        /\ self' = [kind |-> "LevelMilp", max_levels |-> max_levels]
    /\ pc' = "constructed"
    /\ UNCHANGED <<instance, frame, sol, err, decoded>>

\* the backend proved the optimum, or stopped with an incumbent
status_of(a, sat) ==
    IF \A b \in sat : a.H <= b.H THEN "Optimal" ELSE "Not Solved"

Answered(method, a, s) ==
    /\ frame' = [method |-> method, a |-> a]
    /\ sol' = <<s>>
    /\ pc' = "returned"
    /\ UNCHANGED <<instance, allow_rotation, self, err, decoded>>

LevelAnswered(L, sat) ==
    \E a \in sat :
        Answered("level_milp", a,
                 level_decode(instance, allow_rotation, L, a, status_of(a, sat)))

level_answers(inst, allow, L) ==
    {a \in level_candidates(Len(inst.rectangles), allow, L) :
        level_satisfies(inst, allow, L, a)}

\* LevelMilpSolver.solve
LevelSolve ==
    /\ pc = "constructed" /\ self.kind = "LevelMilp"
    /\ LevelAnswered(level_L(self.max_levels, Len(instance.rectangles)),
                     level_answers(instance, allow_rotation,
                         level_L(self.max_levels, Len(instance.rectangles))))

\* MilpSolver.__init__
NewMilp ==
    /\ pc = "new"
    /\ \E allow \in BOOLEAN, bigM_mode \in {"tight", "loose"},
          warm_start \in BOOLEAN, guide_radius \in GuideRadii :
        /\ allow_rotation' = allow
        /\ self' = [kind |-> "Milp", bigM_mode |-> bigM_mode,
                    warm_start |-> warm_start, guide_radius |-> guide_radius]
    /\ pc' = "constructed"
    /\ UNCHANGED <<instance, frame, sol, err, decoded>>

MilpAnswered(sat) ==
    \E a \in sat :
        Answered("milp", a,
                 milp_decode(instance, allow_rotation, a, status_of(a, sat)))

MilpStarted(h) ==
    IF h.err # <<>> THEN Raise(h.err[1])
    ELSE IF milp_warm_start(instance, allow_rotation, self, h.sol[1]) # <<>>
    THEN Raise(milp_warm_start(instance, allow_rotation, self, h.sol[1])[1])
    ELSE MilpAnswered(
            milp_answers(instance, allow_rotation, self, h.sol[1],
                milp_setup(instance, allow_rotation, self.bigM_mode, h.sol[1])))

\* MilpSolver.solve: the Skyline run of lines 36-37 and the seeding loop of
\* lines 148-160 may raise
MilpSolve ==
    /\ pc = "constructed" /\ self.kind = "Milp"
    /\ MilpStarted(_skyline(instance, allow_rotation, FALSE))

NextMilp == NewLevelMilp \/ LevelSolve \/ NewMilp \/ MilpSolve

(***************************************************************************)
(* The specifications.                                                     *)
(***************************************************************************)
\* the heuristics over every small instance
Init == InitWith(InstancesOver(AllShapes, 1..MaxN, StripWidths, Kerfs))
Next == NextHeur
Spec == Init /\ [][Next]_vars

\* the heuristics over every small instance without forbidden zones, which
\* neither _nfdh nor _skyline reads
InitFree ==
    InitWith({Instance(W, rl, d, <<>>) :
                W \in StripWidths, rl \in RectLists(AllShapes, 1..MaxN), d \in Kerfs})
SpecFree == InitFree /\ [][NextHeur]_vars

\* every solver over instances of four shapes: tall or wide, turnable or not
FourShapes == {<<1, 3, FALSE>>, <<3, 1, TRUE>>, <<1, 3, TRUE>>, <<3, 2, FALSE>>}
AllInstances == InstancesOver(FourShapes, {1, 2}, StripWidths, Kerfs)
InitAll == InitWith(AllInstances)
NextAll == NextHeur \/ NextMeta \/ NextMilp
SpecAll == InitAll /\ [][NextAll]_vars

\* the two MILP solvers over instances with a zone across the bottom, beside
\* the bottom left corner, or on the left wall above the floor
PartZones == {<< <<1, 0, 1, 1>> >>, << <<0, 1, 1, 2>> >>}
InitZones ==
    InitWith(UNION {
        {Instance(W, rl, d, z) :
            rl \in RectLists(FourShapes, {1, 2}), d \in Kerfs,
            z \in ZoneLists(W) \cup PartZones} :
        W \in StripWidths})
SpecZones == InitZones /\ [][NextMilp]_vars

(***************************************************************************)
(* The Big-M constants of the Coordinate model against the packings they   *)
(* have to admit: solve() builds the gated inequalities, and a packing is  *)
(* admitted when some choice of the selectors satisfies all of them.       *)
(***************************************************************************)
\* a height no lowest packing of the instance exceeds: zones, items and gaps
\* stacked on one another
stack_top(inst) ==
    SumSeq([k \in 1..Len(inst.rectangles) |->
               Max2(inst.rectangles[k].w, inst.rectangles[k].h) + inst.kerf_delta])
    + SumSeq([k \in 1..Len(inst.forbidden_zones) |->
               inst.forbidden_zones[k][2] + inst.forbidden_zones[k][4]
               + inst.kerf_delta])

\* x, y, r for every rectangle and the height H of the tallest top
layouts(inst, allow) ==
    LET n == Len(inst.rectangles)
        each == [x : 0..inst.W, y : 0..stack_top(inst), r : {0, 1}]
        turn(k) == IF allow /\ inst.rectangles[k].rotatable THEN {0, 1} ELSE {0}
    IN  {[x |-> [k \in 1..n |-> f[k].x], y |-> [k \in 1..n |-> f[k].y],
          r |-> [k \in 1..n |-> f[k].r],
          H |-> MaxSeq([k \in 1..n |->
                          f[k].y + milp_h_eff(inst.rectangles[k], allow, f[k].r)])] :
            f \in {g \in [1..n -> each] : \A k \in 1..n : g[k].r \in turn(k)}}

\* lines 84-87, 107-110 and 129-135 with the Big-M terms left out: the layout
\* is inside the strip, every two items are apart in one direction and every
\* item is clear of every zone in one direction
is_packing(inst, allow, a) ==
    LET ps == milp_placements(inst, allow, a)
    IN  /\ \A k \in 1..Len(ps) : ps[k].x + ps[k].w_eff <= inst.W
        /\ \A i \in 1..Len(ps) : \A j \in (i + 1)..Len(ps) :
              \/ ps[i].x + ps[i].w_eff + inst.kerf_delta <= ps[j].x
              \/ ps[j].x + ps[j].w_eff + inst.kerf_delta <= ps[i].x
              \/ ps[i].y + ps[i].h_eff + inst.kerf_delta <= ps[j].y
              \/ ps[j].y + ps[j].h_eff + inst.kerf_delta <= ps[i].y
        /\ \A i \in 1..Len(ps) : \A k \in 1..Len(inst.forbidden_zones) :
              LET z == inst.forbidden_zones[k]
              IN  \/ ps[i].x + ps[i].w_eff <= z[1]
                  \/ z[1] + z[3] <= ps[i].x
                  \/ ps[i].y + ps[i].h_eff + inst.kerf_delta <= z[2]
                  \/ z[2] + z[4] + inst.kerf_delta <= ps[i].y

\* the packings of the least height
lowest(packings) == {a \in packings : \A b \in packings : a.H <= b.H}

lowest_packings(inst, allow) ==
    lowest({a \in layouts(inst, allow) : is_packing(inst, allow, a)})

\* lines 89-136: some choice of the selectors satisfies every gated
\* inequality of the model at the values a
milp_admits(inst, allow, M, a) ==
    /\ \A i \in 1..Len(inst.rectangles) : \A j \in (i + 1)..Len(inst.rectangles) :
          milp_no_overlap(inst, allow, M, a, i, j)
    /\ \A i \in 1..Len(inst.rectangles) : milp_zones(inst, allow, M, a, i)

MilpGated(h, a) ==
    /\ h.err = <<>>
    /\ frame' = [method |-> "gates", a |-> a,
                 admitted |-> milp_admits(instance, allow_rotation,
                                  milp_setup(instance, allow_rotation,
                                             self.bigM_mode, h.sol[1]), a)]
    /\ pc' = "gated"
    /\ UNCHANGED <<instance, allow_rotation, self, sol, err, decoded>>

\* MilpSolver.solve up to line 136, its gated inequalities read at a packing
\* of the least height
MilpGate ==
    /\ pc = "constructed" /\ self.kind = "Milp"
    /\ \E a \in lowest_packings(instance, allow_rotation) :
          MilpGated(_skyline(instance, allow_rotation, FALSE), a)

SpecBigM == InitZones /\ [][NewMilp \/ MilpGate]_vars

(***************************************************************************)
(* _ox_crossover, called on two parents of four ids as line 68 calls it on *)
(* two pool members.                                                       *)
(***************************************************************************)
FourSquares ==
    Instance(4, [i \in 1..4 |-> Rectangle(i, 1, 1, FALSE)], 0, <<>>)

InitOx ==
    /\ instance = FourSquares
    /\ allow_rotation = TRUE
    /\ self = NoSelf
    /\ pc = "crossing"
    /\ frame \in {[method |-> "_ox_crossover", p1 |-> p1, p2 |-> p2] :
                    p1 \in shuffles(<<1, 2, 3, 4>>), p2 \in shuffles(<<1, 2, 3, 4>>)}
    /\ sol = <<>>
    /\ err = <<>>
    /\ decoded = {}

\* _ox_crossover(p1, p2) for the cut points a < b that line 83 draws
OxCrossover ==
    /\ pc = "crossing"
    /\ \E ab \in {c \in sample_two(Len(frame.p1)) : c[1] < c[2]} :
          frame' = [method |-> "_ox_crossover", p1 |-> frame.p1, p2 |-> frame.p2,
                    a |-> ab[1], b |-> ab[2],
                    child |-> _ox_crossover(frame.p1, frame.p2, ab[1], ab[2])]
    /\ pc' = "crossed"
    /\ UNCHANGED <<instance, allow_rotation, self, sol, err, decoded>>

\* the three searches, and the crossover on its own on longer parents
SpecPerms == (InitMeta \/ InitOx) /\ [][NextMeta \/ OxCrossover]_vars

(***************************************************************************)
(* Tabu five rounds into a run on five rectangles: ten id pairs, twice the *)
(* tenure.  The rectangles differ in the Skyline sort key, so every        *)
(* permutation decodes to the same layout and no round improves on best.   *)
(***************************************************************************)
FiveTall ==
    Instance(5, [i \in 1..5 |-> Rectangle(i, 1, i, FALSE)], 0, <<>>)

\* the position pairs the first five rounds swapped
FirstSwaps == [1..5 -> {<<1, 2>>, <<1, 3>>, <<4, 5>>}]

\* the locals after rounds that took the swaps of `path` and flipped no bit:
\* <<>> when a swap of the path is tabu at its round (line 145)
RECURSIVE tabu_rounds(_, _, _, _)
tabu_rounds(inst, allow, f, path) ==
    IF path = <<>> THEN <<f>>
    ELSE LET i == Head(path)[1]
             j == Head(path)[2]
             key == <<Min2(f.perm[i], f.perm[j]), Max2(f.perm[i], f.perm[j])>>
             cand_p == swap(f.perm, i, j)
             cand == _decode(inst, allow, "Tabu", cand_p, f.bits).sol[1]
         IN  IF key \in f.tabu THEN <<>>
             ELSE tabu_rounds(inst, allow,
                              tabu_move(f, entry(<<cand_p, f.bits>>, cand)),
                              Tail(path))

\* a Tabu run with a time limit, five rounds in with five keys in the tabu
\* set; `it` counts the rounds from here on
InitTenure ==
    /\ instance = FiveTall
    /\ allow_rotation = TRUE
    /\ self = [kind |-> "Meta", strategy |-> "Tabu", time_limit |-> <<1>>,
               population |-> 2, elite |-> 1]
    /\ pc = "loop"
    /\ frame \in
          LET rs == <<<<1, 2, 3, 4, 5>>, <<0, 0, 0, 0, 0>>>>
              f0 == tabu_frame(rs, _decode(instance, allow_rotation, "Tabu",
                                           rs[1], rs[2]).sol[1])
              ends == {tabu_rounds(instance, allow_rotation, f0, path) :
                          path \in FirstSwaps}
          IN  {e[1] : e \in {r \in ends : r # <<>> /\ Cardinality(r[1].tabu) = 5}}
    /\ sol = <<>>
    /\ err = <<>>
    /\ decoded = {frame.best.H}

SpecTenure == InitTenure /\ [][TabuRound \/ MetaReturn]_vars

(***************************************************************************)
(* MilpSolver on instances whose ids are caller-assigned: 1..n in list     *)
(* order, 1..n in another order, or other integers.                        *)
(***************************************************************************)
IdLists == {<<1>>, <<10>>, <<1, 2>>, <<2, 1>>, <<10, 20>>}

InitIds ==
    InitWith(UNION {
        {Instance(W, [k \in 1..Len(ids) |->
                        Rectangle(ids[k], f[k][1], f[k][2], f[k][3])], d, <<>>) :
            f \in [1..Len(ids) -> FourShapes], W \in StripWidths, d \in Kerfs} :
        ids \in IdLists})

SpecIds == InitIds /\ [][NewMilp \/ MilpSolve]_vars

(***************************************************************************)
(* Instances as the dataclass takes them: Instance and Rectangle check     *)
(* nothing, so ids may repeat and sides, widths and zone sides may be 0.   *)
(***************************************************************************)
AnySides == {0, 1, 2}
AnyIds == {1, 2}
InitDirect ==
    InitWith({Instance(W, rl, 0, z) :
                W \in {0, 2},
                rl \in UNION {[1..n -> {Rectangle(id, w, h, FALSE) :
                                          id \in AnyIds, w \in AnySides,
                                          h \in AnySides}] : n \in {1, 2}},
                z \in {<<>>, << <<0, 0, 0, 1>> >>}})
SpecDirect == InitDirect /\ [][NextHeur]_vars

(***************************************************************************)
(* Solution.check_feasibility, called on a solution a caller has built.    *)
(***************************************************************************)
Coords == {-1, 0, 1}
Sides == {1, 2}
CheckZones == {<<>>, << <<1, 1, 1, 1>> >>}

CheckInstances ==
    {Instance(2, rl, d, z) :
        rl \in RectLists({<<1, 2, TRUE>>}, {1, 2}), d \in Kerfs, z \in CheckZones}

CheckPlacements ==
    {Placement(id, x, y, w, h, FALSE) :
        id \in 1..3, x \in Coords, y \in Coords, w \in Sides, h \in Sides}

CheckSolutions ==
    {Solution(H, ps, "caller", "unknown") :
        H \in {2, 3}, ps \in UNION {[1..n -> CheckPlacements] : n \in 0..2}}

InitCheck ==
    /\ instance \in CheckInstances
    /\ allow_rotation = TRUE
    /\ self = NoSelf
    /\ pc = "returned"
    /\ frame = NoFrame
    /\ sol \in {<<s>> : s \in CheckSolutions}
    /\ err = <<>>
    /\ decoded = {}

\* sol.check_feasibility(instance)
CheckFeasibility ==
    /\ pc = "returned"
    /\ frame' = [method |-> "check_feasibility",
                 result |-> check_feasibility(sol[1], instance)]
    /\ pc' = "checked"
    /\ UNCHANGED <<instance, allow_rotation, self, sol, err, decoded>>

NextCheck == CheckFeasibility
SpecCheck == InitCheck /\ [][NextCheck]_vars

(***************************************************************************)
(* The claims.                                                             *)
(***************************************************************************)
Searches == {"Heuristic", "Meta"}     \* NFDH, Skyline, GA, SA, Tabu
Milps == {"LevelMilp", "Milp"}

\* the rectangle of the instance a placement is for
placed_rect(p) == rect_by_id(instance, p.rect_id)

\* C1: every Solution NFDH, Skyline, GA, SA or Tabu returns passes
\* check_feasibility of its instance, whatever the kerf and the zones.
C1_ReturnedIsFeasible ==
    (pc = "returned" /\ self.kind \in Searches)
        => check_feasibility(sol[1], instance)

\* C2: the H of every returned Solution (NFDH, Skyline, GA, SA, Tabu, and the
\* decoded answers of the Level and the Coordinate MILP) is at least
\* max(area_lb, maxh_lb).
C2_HeightAtLeastBounds ==
    pc = "returned"
        => sol[1].H >= Max2(area_lb(instance), maxh_lb(instance, allow_rotation))

\* a search returned a two-rectangle layout exactly as high as the bound
C2_Witness ==
    /\ pc = "returned" /\ self.kind = "Meta"
    /\ Len(instance.rectangles) = 2
    /\ sol[1].H = Max2(area_lb(instance), maxh_lb(instance, allow_rotation))

\* the placement is turned exactly when rotation is allowed, the rectangle is
\* rotatable and taller than wide, and its sides are swapped exactly then
oriented_low(p) ==
    LET r == placed_rect(p)
        turn == allow_rotation /\ r.rotatable /\ r.h > r.w
    IN  /\ p.rotated = turn
        /\ p.w_eff = (IF turn THEN r.h ELSE r.w)
        /\ p.h_eff = (IF turn THEN r.w ELSE r.h)

all_oriented_low(placements) ==
    \A i \in 1..Len(placements) : oriented_low(placements[i])

\* C3: every placement NFDH, Skyline or the metaheuristic decode produces is
\* rotated (w_eff = h, h_eff = w) exactly when allow_rotation holds and the
\* rectangle is rotatable with h > w; otherwise it keeps (w, h).
C3_RotatedIffTallAndAllowed ==
    /\ (self.kind = "Heuristic" /\ pc \in {"placing", "raised", "returned"})
            => all_oriented_low(frame.st.placements)
    /\ (self.kind = "Meta" /\ pc \in {"loop", "returned"})
            => all_oriented_low(frame.best.placements)
    /\ (self.kind \in Searches /\ pc = "returned")
            => all_oriented_low(sol[1].placements)

\* a search returned a turned placement next to a wide rotatable one left as is
C3_Witness ==
    /\ pc = "returned" /\ self.kind = "Meta" /\ allow_rotation
    /\ \E i, j \in 1..Len(sol[1].placements) :
        /\ sol[1].placements[i].rotated
        /\ ~sol[1].placements[j].rotated
        /\ placed_rect(sol[1].placements[j]).rotatable

\* C4: with allow_rotation, no answer of the Level or the Coordinate MILP
\* decodes to a rotated placement of a rectangle that is not rotatable.
C4_MilpKeepsFixedRectangles ==
    (pc = "returned" /\ self.kind \in Milps /\ allow_rotation)
        => \A i \in 1..Len(sol[1].placements) :
              sol[1].placements[i].rotated
                  => placed_rect(sol[1].placements[i]).rotatable

\* the unit cells a box covers
cells(x, y, w, h) == {<<cx, cy>> : cx \in x..(x + w - 1), cy \in y..(y + h - 1)}
cells_of(p) == cells(p.x, p.y, p.w_eff, p.h_eff)

each_id_once(s, inst) ==
    /\ Len(s.placements) = Len(inst.rectangles)
    /\ \A k \in 1..Len(inst.rectangles) :
        \E i \in 1..Len(s.placements) :
            s.placements[i].rect_id = inst.rectangles[k].id

inside_strip(s, inst) ==
    \A i \in 1..Len(s.placements) :
        /\ 0 <= s.placements[i].x /\ 0 <= s.placements[i].y
        /\ s.placements[i].x + s.placements[i].w_eff <= inst.W
        /\ s.placements[i].y + s.placements[i].h_eff <= s.H

disjoint_boxes(s) ==
    \A i, j \in 1..Len(s.placements) :
        i # j => cells_of(s.placements[i]) \cap cells_of(s.placements[j]) = {}

clear_of_zones(s, inst) ==
    \A i \in 1..Len(s.placements) : \A k \in 1..Len(inst.forbidden_zones) :
        LET z == inst.forbidden_zones[k]
        IN  cells_of(s.placements[i]) \cap cells(z[1], z[2], z[3], z[4]) = {}

not_bijection(s, inst) ==
    \/ \E k \in 1..Len(inst.rectangles) :
          \A i \in 1..Len(s.placements) :
              s.placements[i].rect_id # inst.rectangles[k].id
    \/ \E i \in 1..Len(s.placements) :
          \A k \in 1..Len(inst.rectangles) :
              s.placements[i].rect_id # inst.rectangles[k].id
    \/ \E i, j \in 1..Len(s.placements) :
          i # j /\ s.placements[i].rect_id = s.placements[j].rect_id

\* C6: check_feasibility is false whenever the placements are not in
\* bijection with the rectangles: an id missing, a foreign rect_id, or a
\* rect_id carried by two or more placements.
C6_NotBijectionIsInfeasible ==
    (pc = "checked" /\ not_bijection(sol[1], instance)) => ~frame.result

\* the least width among the orientations the rectangle may take
least_width(r) ==
    IF allow_rotation /\ r.rotatable THEN Min2(r.w, r.h) ELSE r.w

\* C7: a heuristic raises its width error only for a rectangle whose least
\* width over the allowed orientations exceeds W.
C7_RaisesOnlyIfNoOrientationFits ==
    (pc = "raised" /\ self.kind = "Heuristic")
        => least_width(rect_by_id(instance, err[1].args[1])) > instance.W

too_wide(r) == r.w > instance.W /\ (~allow_rotation \/ ~r.rotatable)

has_too_wide ==
    \E k \in 1..Len(instance.rectangles) : too_wide(instance.rectangles[k])

\* the width error, naming a rectangle of the instance, a side of it that
\* exceeds W, and W
is_width_error(e) ==
    \E k \in 1..Len(instance.rectangles) :
        \E width \in {instance.rectangles[k].w, instance.rectangles[k].h} :
            /\ width > instance.W
            /\ e = WidthError(instance.rectangles[k].id, width, instance.W)

all_fit ==
    \A k \in 1..Len(instance.rectangles) :
        least_width(instance.rectangles[k]) <= instance.W

\* C9: on an instance of at least one rectangle, all fitting, with a
\* positive time limit, GA, SA and Tabu never raise and return a Solution
\* placing every rectangle; one rectangle is enough.
C9_MetaNeverRaises ==
    (self.kind = "Meta" /\ all_fit /\ truthy(self.time_limit)
        /\ Len(instance.rectangles) >= 1)
        => /\ pc # "raised"
           /\ pc = "returned" => each_id_once(sol[1], instance)

\* C10: in GA, SA and Tabu, once the first solution is decoded and after
\* every loop iteration, best is no higher than any solution decoded so far,
\* and the solution returned is that best.
C10_BestIsLowestDecoded ==
    (self.kind = "Meta" /\ pc \in {"loop", "returned"})
        => /\ \A h \in decoded : frame.best.H <= h
           /\ pc = "returned" => sol[1] = frame.best

\* SA returned after decoding layouts of different heights
C10_Witness ==
    /\ pc = "returned" /\ self.kind = "Meta" /\ self.strategy = "SA"
    /\ Cardinality(decoded) >= 2
    /\ \E h \in decoded : sol[1].H < h


\* C11: across GA generations best.H never increases, for every population
\* and elite setting, elite = 0 included: each generation leaves best.H at
\* most what it was before the generation.
C11_GaBestNeverIncreases ==
    [][(pc = "loop" /\ frame.method = "_run_ga" /\ pc' = "loop")
            => frame'.best.H <= frame.best.H]_vars

\* a GA run without elitism after a generation whose whole pool is higher
\* than the tracked best
C11_Witness ==
    /\ pc = "loop" /\ frame.method = "_run_ga" /\ frame.it >= 1
    /\ self.elite = 0
    /\ frame.pool[1][1] > frame.best.H


\* the Solutions a run of the constructed solver returns when its deadline
\* has passed before the first iteration
runs_without_iteration ==
    IF self.strategy = "GA"
    THEN {ga_frame(by_H(entries(rs, decode_each(instance, allow_rotation,
                                                "GA", rs)))).best :
            rs \in [1..self.population
                      -> _random_solution(instance, allow_rotation)]}
    ELSE {_decode(instance, allow_rotation, self.strategy, rs[1], rs[2]).sol[1] :
            rs \in _random_solution(instance, allow_rotation)}

\* C13: GA, SA and Tabu are reproducible: two runs on the same Instance with
\* the same constructor parameters (a seed among them) that execute the same
\* number of iterations return identical Solutions.  For runs without an
\* iteration: the Solution returned is the only one such a run can return.
C13_SeededRunsAgree ==
    (self.kind = "Meta" /\ pc = "returned" /\ frame.it = 0)
        => runs_without_iteration = {sol[1]}


\* the largest item height on the shelf of the placement at position i
shelf_max(ps, i) ==
    MaxSeq([k \in 1..Len(ps) |-> IF ps[k].y = ps[i].y THEN ps[k].h_eff ELSE 0])

\* the placement at i > 1 continues the shelf of the one before it
same_shelf(ps, i, d) ==
    /\ ps[i].y = ps[i - 1].y
    /\ ps[i].x = ps[i - 1].x + ps[i - 1].w_eff + d

\* the placement at i > 1 opens the shelf above the one before it
next_shelf(ps, i, d) ==
    /\ ps[i].x = 0
    /\ ps[i].y = ps[i - 1].y + shelf_max(ps, i - 1) + d

\* two placements are at least d apart along x or along y
kerf_apart(p, q, d) ==
    \/ p.x + p.w_eff + d <= q.x
    \/ q.x + q.w_eff + d <= p.x
    \/ p.y + p.h_eff + d <= q.y
    \/ q.y + q.h_eff + d <= p.y

all_kerf_apart(ps, d) ==
    \A i \in 1..Len(ps) : \A j \in (i + 1)..Len(ps) : kerf_apart(ps[i], ps[j], d)

\* C14: in every NFDH Solution the first item of a shelf is at x = 0, each
\* further item of the shelf starts kerf_delta right of the previous item's
\* right edge, each new shelf starts at the previous shelf's y plus that
\* shelf's largest item height plus kerf_delta, H is the top of the last
\* shelf, and every two placements are kerf_delta apart along x or y.
C14_NfdhShelves ==
    (pc = "returned" /\ self.kind = "Heuristic" /\ frame.method = "_nfdh")
        => LET ps == sol[1].placements
               d == instance.kerf_delta
           IN  /\ ps # <<>> => ps[1].x = 0
               /\ \A i \in 2..Len(ps) : same_shelf(ps, i, d) \/ next_shelf(ps, i, d)
               /\ ps # <<>> => sol[1].H = ps[Len(ps)].y + shelf_max(ps, Len(ps))
               /\ all_kerf_apart(ps, d)

\* an NFDH Solution under a positive kerf with two items on one shelf
C14_Witness ==
    /\ pc = "returned" /\ self.kind = "Heuristic" /\ frame.method = "_nfdh"
    /\ instance.kerf_delta > 0
    /\ Len(sol[1].placements) >= 2
    /\ sol[1].placements[2].y = sol[1].placements[1].y

\* an NFDH Solution under a positive kerf with two shelves
C14_WitnessShelves ==
    /\ pc = "returned" /\ self.kind = "Heuristic" /\ frame.method = "_nfdh"
    /\ instance.kerf_delta > 0
    /\ Len(sol[1].placements) >= 2
    /\ sol[1].placements[2].y > sol[1].placements[1].y


\* no placement has a y in common with a zone that spans the strip's width
clear_of_full_width_zones(s, inst) ==
    \A i \in 1..Len(s.placements) : \A k \in 1..Len(inst.forbidden_zones) :
        LET z == inst.forbidden_zones[k]
            p == s.placements[i]
        IN  (z[1] <= 0 /\ z[1] + z[3] >= inst.W)
                => (p.y + p.h_eff <= z[2] \/ z[2] + z[4] <= p.y)

\* C15: every assignment that satisfies the Coordinate model decodes into
\* placements inside the strip (x >= 0, y >= 0, x + w_eff <= W,
\* y + h_eff <= H), pairwise kerf_delta apart along x or along y, sharing no
\* area with a forbidden zone, and with no y in common with a zone that spans
\* the full strip width.
C15_MilpAnswerIsGeometric ==
    (pc = "returned" /\ self.kind = "Milp")
        => /\ each_id_once(sol[1], instance)
           /\ inside_strip(sol[1], instance)
           /\ all_kerf_apart(sol[1].placements, instance.kerf_delta)
           /\ clear_of_zones(sol[1], instance)
           /\ clear_of_full_width_zones(sol[1], instance)

\* the Coordinate model answered for two rectangles under a positive kerf,
\* one of them on the floor beside a forbidden zone
C15_Witness ==
    /\ pc = "returned" /\ self.kind = "Milp"
    /\ instance.kerf_delta > 0
    /\ instance.forbidden_zones = << <<1, 0, 1, 1>> >>
    /\ Len(sol[1].placements) = 2
    /\ \E i \in 1..2 : sol[1].placements[i].y = 0


\* the placement is at least d away from the zone along x or along y
kerf_from_zone(p, z, d) ==
    \/ p.x + p.w_eff + d <= z[1]
    \/ z[1] + z[3] + d <= p.x
    \/ p.y + p.h_eff + d <= z[2]
    \/ z[2] + z[4] + d <= p.y

\* C16: the Coordinate model keeps the kerf between an item and a forbidden
\* zone in all four directions: every satisfying assignment leaves each item
\* at least kerf_delta away from each zone, left of it, right of it, below it
\* or above it.
C16_MilpKerfAroundZones ==
    (pc = "returned" /\ self.kind = "Milp")
        => \A i \in 1..Len(sol[1].placements) :
             \A k \in 1..Len(instance.forbidden_zones) :
                kerf_from_zone(sol[1].placements[i], instance.forbidden_zones[k],
                               instance.kerf_delta)


\* C17: with bigM_mode "tight" and with "loose", for every kerf and every
\* zone list, Mx and My exclude no feasible configuration: every packing
\* inside the strip that keeps the kerf and avoids the zones satisfies the
\* gated inequalities under some selector assignment.  Stated for the
\* packings of the least height, which the model exists to find.
C17_BigMAdmitsPackings ==
    pc = "gated" => frame.admitted


\* C18: every Solution decoded from an assignment that satisfies the Level
\* model places each rectangle exactly once, inside the strip, without
\* overlap, kerf_delta apart within a level and between levels, and sharing
\* no area with a forbidden zone, so that check_feasibility returns true.
C18_LevelAnswerIsFeasible ==
    (pc = "returned" /\ self.kind = "LevelMilp")
        => /\ each_id_once(sol[1], instance)
           /\ inside_strip(sol[1], instance)
           /\ disjoint_boxes(sol[1])
           /\ all_kerf_apart(sol[1].placements, instance.kerf_delta)
           /\ clear_of_zones(sol[1], instance)
           /\ check_feasibility(sol[1], instance)


\* C19: when max_levels is not supplied (None), the Level model is built with
\* L = ceil(n / 2) + 1 candidate levels, n being the number of rectangles.
C19_DefaultLevelCount ==
    (pc = "returned" /\ self.kind = "LevelMilp" /\ self.max_levels = <<>>)
        => Len(frame.a.s) = (Len(instance.rectangles) + 1) \div 2 + 1


\* positive sides, distinct ids, positive strip width, positive zone sides
well_formed(inst) ==
    /\ inst.W > 0
    /\ \A i \in 1..Len(inst.rectangles) :
          /\ inst.rectangles[i].w > 0 /\ inst.rectangles[i].h > 0
          /\ \A j \in 1..Len(inst.rectangles) :
                i # j => inst.rectangles[i].id # inst.rectangles[j].id
    /\ \A k \in 1..Len(inst.forbidden_zones) :
          inst.forbidden_zones[k][3] > 0 /\ inst.forbidden_zones[k][4] > 0

\* C20: an Instance with a non-positive rectangle side, a repeated rectangle
\* id, a non-positive strip width or a forbidden zone with a non-positive
\* side is rejected before any solver places a rectangle: solve places
\* nothing and returns no Solution for it.
C20_MalformedIsRejected ==
    ~well_formed(instance)
        => /\ pc # "returned"
           /\ pc = "placing" => frame.st.placements = <<>>

\* C12: with the wall clock advancing, MetaheuristicSolver.solve eventually
\* returns for GA, SA and Tabu and for every time_limit (a positive number,
\* 0 or None), every loop testing a deadline or an iteration bound once per
\* iteration: no call goes on taking steps forever.
C12_SolveStops == <>[][FALSE]_vars


\* the current (perm, bits, Solution) of a running SA or Tabu search: the
\* Solution is what _decode returned for that perm and those bits
current_coded ==
    IF frame.method = "_run_sa"
    THEN <<frame.start_perm, frame.start_bits, frame.cur_sol>>
    ELSE <<frame.perm, frame.bits, frame.cur>>

placement_of(s, rid) ==
    s.placements[CHOOSE i \in 1..Len(s.placements) : s.placements[i].rect_id = rid]

\* C21: in _decode the orientation bit of an item selects its orientation:
\* for a rotatable item with rotation allowed, bit 1 gives a rotated
\* placement and bit 0 an unrotated one.
C21_BitSelectsOrientation ==
    (pc = "loop" /\ frame.method \in {"_run_sa", "_run_tabu"})
        => LET c == current_coded
           IN  \A k \in 1..Len(c[1]) :
                  (allow_rotation /\ rect_by_id(instance, c[1][k]).rotatable)
                      => (placement_of(c[3], c[1][k]).rotated <=> c[2][k] = 1)

\* C22: in _decode the Skyline run places the rectangles in the order of the
\* permutation: the k-th rectangle placed is perm[k].
C22_PlacedInPermOrder ==
    (pc = "loop" /\ frame.method \in {"_run_sa", "_run_tabu"})
        => LET c == current_coded
           IN  \A k \in 1..Len(c[1]) : c[3].placements[k].rect_id = c[1][k]

\* the bit at every position is 0 unless the rectangle at that position of
\* the permutation may be turned
bits_forced(perm, bits) ==
    \A k \in 1..Len(bits) :
        bits[k] = 1 => (allow_rotation /\ rect_by_id(instance, perm[k]).rotatable)

\* C23: in every state GA, SA or Tabu reaches, the orientation bit at each
\* position is 0 whenever the rectangle at that position of the permutation
\* is non-rotatable or rotation is globally disallowed.
C23_BitsForcedToZero ==
    pc = "loop"
        => IF frame.method = "_run_ga"
           THEN \A k \in 1..Len(frame.pool) :
                    bits_forced(frame.pool[k][2], frame.pool[k][3])
           ELSE bits_forced(current_coded[1], current_coded[2])

\* perm holds each rectangle id of the instance exactly once
is_permutation(perm) ==
    /\ Len(perm) = Len(instance.rectangles)
    /\ \A k \in 1..Len(instance.rectangles) :
          Cardinality({i \in 1..Len(perm) : perm[i] = instance.rectangles[k].id}) = 1

position(seq, x) == CHOOSE i \in 1..Len(seq) : seq[i] = x

\* positions a..b of the child hold the segment of p1, the other positions the
\* other ids in the order p2 has them
is_order_crossover(child, p1, p2, a, b) ==
    /\ \A k \in a..b : child[k] = p1[k]
    /\ \A i, j \in (1..Len(child)) \ (a..b) :
          i < j => position(p2, child[i]) < position(p2, child[j])

\* C24: every permutation held by GA (pool members, children), by SA
\* (current and candidate) and by Tabu (current and neighbours) contains each
\* rectangle id exactly once; in the crossover child the positions a..b hold
\* parent 1's segment and the other positions the other ids in parent 2's order.
C24_PermutationsKept ==
    /\ (pc = "loop" /\ frame.method = "_run_ga")
          => /\ \A k \in 1..Len(frame.pool) : is_permutation(frame.pool[k][2])
             /\ \A ch \in ga_children(frame.pool, self.population) :
                    is_permutation(ch[1])
    /\ (pc = "loop" /\ frame.method = "_run_sa")
          => /\ is_permutation(frame.start_perm)
             /\ \A nb \in sa_neighbours(frame.start_perm, frame.start_bits) :
                    is_permutation(nb[1])
    /\ (pc = "loop" /\ frame.method = "_run_tabu")
          => /\ is_permutation(frame.perm)
             /\ \A m \in tabu_moves(frame.perm, frame.bits) : is_permutation(m[2])
    /\ pc = "crossed"
          => /\ is_permutation(frame.child)
             /\ is_order_crossover(frame.child, frame.p1, frame.p2, frame.a, frame.b)

\* a crossover whose child is neither parent: two positions are filled from p2
C24_Witness ==
    /\ pc = "crossed"
    /\ frame.child # frame.p1 /\ frame.child # frame.p2
    /\ frame.b = frame.a + 1

\* the segments of a profile wide enough for an item of width w
hosts(skyline, w) == {i \in 1..Len(skyline) : skyline[i][2] >= w}

\* the placement p sits on the lowest segment of the profile that is wide
\* enough, the leftmost of the lowest, or at x = 0 on the highest level of
\* the profile when no segment is wide enough
on_lowest_host(skyline, p) ==
    IF hosts(skyline, p.w_eff) = {}
    THEN /\ p.x = 0
         /\ \E i \in 1..Len(skyline) : p.y = skyline[i][3]
         /\ \A i \in 1..Len(skyline) : skyline[i][3] <= p.y
    ELSE \E i \in hosts(skyline, p.w_eff) :
            /\ p.x = skyline[i][1] /\ p.y = skyline[i][3]
            /\ \A j \in hosts(skyline, p.w_eff) :
                  \/ skyline[i][3] < skyline[j][3]
                  \/ skyline[i][3] = skyline[j][3] /\ skyline[i][1] <= skyline[j][1]

tiles_strip(skyline, W) ==
    /\ skyline # <<>>
    /\ skyline[1][1] = 0
    /\ \A i \in 1..Len(skyline) : skyline[i][2] > 0
    /\ \A i \in 1..(Len(skyline) - 1) : skyline[i][1] + skyline[i][2] = skyline[i + 1][1]
    /\ skyline[Len(skyline)][1] + skyline[Len(skyline)][2] = W

fully_merged(skyline) ==
    \A i \in 1..(Len(skyline) - 1) : skyline[i][3] # skyline[i + 1][3]

\* over every segment the profile is at least as high as the top of every
\* item placed above a part of the segment
covers_items(skyline, placements) ==
    \A i \in 1..Len(skyline) : \A k \in 1..Len(placements) :
        (placements[k].x < skyline[i][1] + skyline[i][2]
            /\ skyline[i][1] < placements[k].x + placements[k].w_eff)
            => placements[k].y + placements[k].h_eff <= skyline[i][3]

\* C26: after every Skyline placement (normal or fallback) the profile is a
\* list of segments sorted by x that tile [0, W) exactly, no two adjacent
\* segments have the same height, and over every segment the profile is at
\* least the top of every item already placed above that x-range.
C26_ProfileWellFormed ==
    (pc = "placing" /\ frame.method = "_skyline")
        => /\ tiles_strip(frame.st.skyline, instance.W)
           /\ fully_merged(frame.st.skyline)
           /\ covers_items(frame.st.skyline, frame.st.placements)

\* two items side by side with equal tops: their segments were merged
C26_Witness ==
    /\ pc = "placing" /\ frame.method = "_skyline"
    /\ Len(frame.st.placements) = 2
    /\ frame.st.placements[2].x > 0
    /\ Len(frame.st.skyline) = 1

\* the key line 158 inserts for the permutation the round moved to
inserted_key(perm) ==
    <<Min2(perm[1], perm[Len(perm)]), Max2(perm[1], perm[Len(perm)])>>

\* C27: after every Tabu round the tabu set holds at most tenure keys, and
\* when an insertion makes it exceed the tenure the key removed is the one
\* inserted earliest: the key the round has just inserted stays in the set.
C27_TabuEvictsOldest ==
    (pc = "loop" /\ frame.method = "_run_tabu" /\ frame.tabu # {})
        => /\ Cardinality(frame.tabu) <= frame.tenure
           /\ inserted_key(frame.perm) \in frame.tabu

\* C28: the anchor x = 0 on the rectangle of the largest relevant dimension
\* only breaks symmetry: the least H of the Coordinate model with the anchor
\* is the least H of the model without it, forbidden zones included.  An
\* answer the backend proved optimal is as low as every assignment that
\* satisfies the model without the anchor.
C28_AnchorKeepsOptimum ==
    (pc = "returned" /\ self.kind = "Milp" /\ sol[1].optimality = "Optimal")
        => LET hsol == _skyline(instance, allow_rotation, FALSE).sol[1]
               M == milp_setup(instance, allow_rotation, self.bigM_mode, hsol)
           IN  \A b \in milp_answers_free(instance, allow_rotation, self, hsol, M) :
                  sol[1].H <= b.H

\* C29: the guide-band constraints are added only when warm_start is on,
\* kerf_delta = 0 and guide_radius > 0, and with them the model stays
\* satisfiable: for every instance that admits a packing avoiding its
\* forbidden zones, some assignment satisfies all constraints, the bounds
\* |x - x_warm| <= R and |y - y_warm| <= R included.
C29_GuideKeepsModelSatisfiable ==
    LET h == _skyline(instance, allow_rotation, FALSE)
    IN  (/\ pc = "constructed" /\ self.kind = "Milp"
         /\ self.warm_start /\ instance.kerf_delta = 0 /\ self.guide_radius > 0
         /\ h.err = <<>>
         /\ \E a \in layouts(instance, allow_rotation) :
               is_packing(instance, allow_rotation, a))
            => milp_answers(instance, allow_rotation, self, h.sol[1],
                            milp_setup(instance, allow_rotation, self.bigM_mode,
                                       h.sol[1])) # {}

\* C30: with warm_start on and rotation allowed, MilpSolver.solve seeds the
\* variables of every rectangle from the placement of the same id and
\* raises nothing while doing so, for every instance with unique integer
\* ids, ids other than 1..n in list order included; the rotatable flag
\* consulted for an id is the flag of the rectangle that has the id.
C30_WarmStartById ==
    (self.kind = "Milp" /\ self.warm_start /\ allow_rotation)
        => /\ pc = "raised" => err[1] # IndexError
           /\ pc = "returned"
                => \A k \in 1..Len(instance.rectangles) :
                      rect_at(instance, instance.rectangles[k].id)[1].rotatable
                          = instance.rectangles[k].rotatable
=============================================================================
